---- MODULE Spec2Model ----
(***************************************************************************)
(* A model of the alarm clock integration's scheduling and lifecycle core: *)
(* the per-alarm state machine (state_machine.py), the coordinator's       *)
(* commands, timers and startup (coordinator.py) and the store (store.py). *)
(*                                                                         *)
(* Time is wall-clock time in whole seconds since a Monday 00:00:00 local  *)
(* time.  A handler is cut into the segments that run between two real     *)
(* suspension points (a store write, the run of a configured script); a    *)
(* suspended handler is a record in `tasks`.                               *)
(***************************************************************************)
EXTENDS Integers, Sequences, FiniteSets, TLC

VARIABLES
    now,               \* the wall clock, in seconds
    running,           \* AlarmClockCoordinator._running
    alarms,            \* AlarmClockCoordinator._alarms: id -> state machine
    storeAlarms,       \* AlarmClockStore._data["alarms"]
    storeRuntime,      \* AlarmClockStore._data["runtime_states"]
    scheduled,         \* _scheduled_callbacks: id -> timer handle (Main)
    preAlarmCb,        \* _pre_alarm_callbacks
    snoozeCb,          \* _snooze_callbacks
    autoDismissCb,     \* _auto_dismiss_callbacks
    lastTriggerTimes,  \* _last_trigger_times
    tasks,             \* the handlers suspended at an await
    events,            \* the events fired on the bus by the last step
    last,              \* the last operation that ran, with what it returned
    ncmd,              \* the commands so far
    nrestart,          \* the starts, stops and crashes so far
    mainRuns,          \* history: id -> the last two runs of the Main timer's handler
    oneTimeDone,       \* history: the one-time alarms dismissed and not re-enabled since
    missedAt,          \* history: id -> the occurrence that passed while the coordinator was down
    skipDue,           \* history: id -> the occurrence a skip_next command was to suppress
    orphans,           \* the timers a coordinator that was stopped has left registered
    calc               \* harness of SpecCalc: the last next-trigger computation

vars == <<now, running, alarms, storeAlarms, storeRuntime, scheduled, preAlarmCb,
          snoozeCb, autoDismissCb, lastTriggerTimes, tasks, events, last, ncmd, nrestart,
          mainRuns, missedAt, oneTimeDone, skipDue, orphans, calc>>

-----------------------------------------------------------------------------
(* Constants of the program *)

NoTime == 0 - 1          \* None, for an optional datetime
NoTrigger == "none"      \* None, for current_trigger_type

DISABLED == "disabled"
ARMED == "armed"
PRE_ALARM == "pre_alarm"
RINGING == "ringing"
SNOOZED == "snoozed"
DISMISSED == "dismissed"
AUTO_DISMISSED == "auto_dismissed"
MISSED == "missed"

AlarmState == {DISABLED, ARMED, PRE_ALARM, RINGING, SNOOZED, DISMISSED, AUTO_DISMISSED, MISSED}

WEEKDAYS == <<"monday", "tuesday", "wednesday", "thursday", "friday", "saturday", "sunday">>

VALID_STATE_TRANSITIONS_mut_armed_snoozed ==
    [s \in AlarmState |->
        CASE s = DISABLED -> {ARMED}
          [] s = ARMED -> {DISABLED, PRE_ALARM, RINGING, MISSED, SNOOZED}
          [] s = PRE_ALARM -> {RINGING, DISABLED, MISSED}
          [] s = RINGING -> {SNOOZED, DISMISSED, AUTO_DISMISSED, DISABLED}
          [] s = SNOOZED -> {RINGING, DISMISSED, DISABLED}
          [] OTHER -> {ARMED, DISABLED}]

VALID_STATE_TRANSITIONS ==
    [s \in AlarmState |->
        CASE s = DISABLED -> {ARMED}
          [] s = ARMED -> {DISABLED, PRE_ALARM, RINGING, MISSED}
          [] s = PRE_ALARM -> {RINGING, DISABLED, MISSED}
          [] s = RINGING -> {SNOOZED, DISMISSED, AUTO_DISMISSED, DISABLED}
          [] s = SNOOZED -> {RINGING, DISMISSED, DISABLED}
          [] s = DISMISSED -> {ARMED, DISABLED}
          [] s = AUTO_DISMISSED -> {ARMED, DISABLED}
          [] s = MISSED -> {ARMED, DISABLED}]

TRIGGER_SCHEDULED == "scheduled"
TRIGGER_MANUAL_TEST == "manual_test"
TRIGGER_MISSED_RECOVERY == "missed_recovery"

DEFAULT_MISSED_ALARM_GRACE_PERIOD == 5    \* minutes
DUPLICATE_TRIGGER_WINDOW == 60
HEALTH_CHECK_INTERVAL == 60            \* seconds

-----------------------------------------------------------------------------
(* state_machine.py *)

\* AlarmRuntimeState(): the defaults of the dataclass
AlarmRuntimeState ==
    [state |-> DISABLED, snooze_count |-> 0, last_triggered |-> NoTime,
     last_state_change |-> NoTime, current_trigger_type |-> NoTrigger,
     next_trigger |-> NoTime, snooze_end_time |-> NoTime,
     pre_alarm_start_time |-> NoTime, ringing_start_time |-> NoTime]

\* AlarmStateMachine.__init__: the initial state follows the enabled flag
AlarmStateMachine(alarm_data) ==
    [data |-> alarm_data,
     rt |-> [AlarmRuntimeState EXCEPT !.state = IF alarm_data.enabled THEN ARMED ELSE DISABLED]]

can_transition_to(alarm, target_state) ==
    target_state \in VALID_STATE_TRANSITIONS[alarm.rt.state]

transition_effect_mut_no_reset(rt, target_state, trigger_type, t) ==
    LET r0 == [rt EXCEPT !.state = target_state, !.last_state_change = t] IN
    IF target_state = RINGING THEN
        [r0 EXCEPT !.current_trigger_type = trigger_type,
                   !.last_triggered = t,
                   !.ringing_start_time = t]
    ELSE IF target_state = SNOOZED THEN
        [r0 EXCEPT !.snooze_count = @ + 1]
    ELSE IF target_state \in {AUTO_DISMISSED, ARMED} THEN
        [r0 EXCEPT !.snooze_count = 0,
                   !.current_trigger_type = NoTrigger,
                   !.ringing_start_time = NoTime,
                   !.snooze_end_time = NoTime,
                   !.pre_alarm_start_time = NoTime]
    ELSE IF target_state = PRE_ALARM THEN
        [r0 EXCEPT !.pre_alarm_start_time = t]
    ELSE r0

\* The runtime fields after a transition that was let through
transition_effect(rt, target_state, trigger_type, t) ==
    LET r0 == [rt EXCEPT !.state = target_state, !.last_state_change = t] IN
    IF target_state = RINGING THEN
        [r0 EXCEPT !.current_trigger_type = trigger_type,
                   !.last_triggered = t,
                   !.ringing_start_time = t]
    ELSE IF target_state = SNOOZED THEN
        [r0 EXCEPT !.snooze_count = @ + 1]
    ELSE IF target_state \in {DISMISSED, AUTO_DISMISSED, ARMED} THEN
        [r0 EXCEPT !.snooze_count = 0,
                   !.current_trigger_type = NoTrigger,
                   !.ringing_start_time = NoTime,
                   !.snooze_end_time = NoTime,
                   !.pre_alarm_start_time = NoTime]
    ELSE IF target_state = PRE_ALARM THEN
        [r0 EXCEPT !.pre_alarm_start_time = t]
    ELSE r0

\* AlarmStateMachine.transition_to: <<returned value, the state machine afterwards>>
transition_to(alarm, target_state, trigger_type, force, t) ==
    IF ~force /\ ~can_transition_to(alarm, target_state)
    THEN [ok |-> FALSE, alarm |-> alarm]
    ELSE [ok |-> TRUE,
          alarm |-> [alarm EXCEPT !.rt = transition_effect(alarm.rt, target_state, trigger_type, t)]]

\* AlarmStateMachine.to_restore_data
to_restore_data(alarm) ==
    [state |-> alarm.rt.state, snooze_count |-> alarm.rt.snooze_count,
     last_triggered |-> alarm.rt.last_triggered,
     snooze_end_time |-> alarm.rt.snooze_end_time]

\* AlarmStateMachine.restore_from_data (the saved state is always a valid state name)
restore_from_data(alarm, data) ==
    [alarm EXCEPT !.rt.state = data.state,
                  !.rt.snooze_count = data.snooze_count,
                  !.rt.last_triggered =
                      IF data.last_triggered # NoTime THEN data.last_triggered ELSE @,
                  !.rt.snooze_end_time =
                      IF data.snooze_end_time # NoTime THEN data.snooze_end_time ELSE @]

-----------------------------------------------------------------------------
(* coordinator.py: the next-trigger computation *)

DateOf(t) == t \div 86400
DayName(date) == WEEKDAYS[(date % 7) + 1]
AtTime(date, hm) == date * 86400 + hm.h * 3600 + hm.m * 60

RECURSIVE calc_scan_mut_lt(_, _, _)
calc_scan_mut_lt(alarm_data, t, days_ahead) ==
    IF days_ahead >= 8 THEN NoTime
    ELSE LET check_date == DateOf(t) + days_ahead
             trigger_time == AtTime(check_date, alarm_data.time)
         IN  IF DayName(check_date) \notin alarm_data.days
             THEN calc_scan_mut_lt(alarm_data, t, days_ahead + 1)
             ELSE IF days_ahead = 0 /\ trigger_time < t
             THEN calc_scan_mut_lt(alarm_data, t, days_ahead + 1)
             ELSE trigger_time

\* the loop `for days_ahead in range(8)` of _calculate_next_trigger
RECURSIVE calc_scan(_, _, _)
calc_scan(alarm_data, t, days_ahead) ==
    IF days_ahead >= 8 THEN NoTime
    ELSE LET check_date == DateOf(t) + days_ahead
             trigger_time == AtTime(check_date, alarm_data.time)
         IN  IF DayName(check_date) \notin alarm_data.days
             THEN calc_scan(alarm_data, t, days_ahead + 1)
             ELSE IF days_ahead = 0 /\ trigger_time <= t
             THEN calc_scan(alarm_data, t, days_ahead + 1)
             ELSE trigger_time

_calculate_next_trigger(alarm_data, t) == calc_scan(alarm_data, t, 0)

-----------------------------------------------------------------------------
(* Python dicts: a function whose domain is the set of keys *)

\* F applied to the value x: binds a value that is used more than once
With(x, F(_)) == F(x)

EmptyDict == << >>
Put(d, k, v) == [x \in (DOMAIN d) \cup {k} |-> IF x = k THEN v ELSE d[x]]
Pop(d, k) == [x \in (DOMAIN d) \ {k} |-> d[x]]

\* The handle async_track_point_in_time returns; the entry stays in the dict
\* after the timer has fired
Timer(at) == [at |-> at, fired |-> FALSE]
Pending(d, id) == id \in DOMAIN d /\ ~d[id].fired

-----------------------------------------------------------------------------
(* coordinator.py: the helpers, as functions of the coordinator's state c *)

\* The coordinator's state as one record
Cur ==
    [alarms |-> alarms, storeAlarms |-> storeAlarms, storeRuntime |-> storeRuntime,
     scheduled |-> scheduled, preAlarmCb |-> preAlarmCb, snoozeCb |-> snoozeCb,
     autoDismissCb |-> autoDismissCb, lastTriggerTimes |-> lastTriggerTimes,
     mainRuns |-> mainRuns, missedAt |-> missedAt, oneTimeDone |-> oneTimeDone,
     skipDue |-> skipDue, orphans |-> orphans, events |-> << >>]

\* AlarmStateMachine.get_event_data, with the event's type
EventOf(type, id, alarm) ==
    [type |-> type, id |-> id, alarm_state |-> alarm.rt.state,
     snooze_count |-> alarm.rt.snooze_count,
     trigger_type |-> alarm.rt.current_trigger_type, missed_by_seconds |-> NoTime]

_fire_event(c, ev) == [c EXCEPT !.events = Append(@, ev)]

\* the step has fired an event of this type for the alarm
HasEvent(c, type, id) ==
    \E i \in 1..Len(c.events) : c.events[i].type = type /\ c.events[i].id = id

_cancel_scheduled_callback(c, id) == [c EXCEPT !.scheduled = Pop(@, id)]
_cancel_snooze_callback_mut_all(c, id) == [c EXCEPT !.snoozeCb = EmptyDict]
_cancel_snooze_callback(c, id) == [c EXCEPT !.snoozeCb = Pop(@, id)]
_cancel_auto_dismiss_callback(c, id) == [c EXCEPT !.autoDismissCb = Pop(@, id)]
_cancel_pre_alarm_callback(c, id) == [c EXCEPT !.preAlarmCb = Pop(@, id)]

_schedule_pre_alarm(c, id, trigger_time) ==
    [c EXCEPT !.preAlarmCb = Put(@, id, Timer(trigger_time))]

_schedule_snooze_end(c, id, end_time) ==
    LET c1 == IF id \in DOMAIN c.alarms
              THEN [c EXCEPT !.alarms[id].rt.snooze_end_time = end_time]
              ELSE c
    IN  [c1 EXCEPT !.snoozeCb = Put(@, id, Timer(end_time))]

_schedule_auto_dismiss(c, id, dismiss_time) ==
    [c EXCEPT !.autoDismissCb = Put(@, id, Timer(dismiss_time))]

\* AlarmStateMachine.transition_to on the alarm of the map; a handler whose alarm
\* was removed meanwhile acts on an object nothing else can see
Transition(c, id, target_state, trigger_type, force, t) ==
    IF id \notin DOMAIN c.alarms THEN [ok |-> TRUE, c |-> c]
    ELSE With(transition_to(c.alarms[id], target_state, trigger_type, force, t), LAMBDA r :
             [ok |-> r.ok, c |-> [c EXCEPT !.alarms[id] = r.alarm]])

\* store.async_update_alarm: a write only when the alarm is in the store
StoreUpdate(c, id) ==
    IF id \in DOMAIN c.storeAlarms /\ id \in DOMAIN c.alarms
    THEN [c EXCEPT !.storeAlarms[id] = c.alarms[id].data]
    ELSE c

\* store.async_save_runtime_state
StoreSaveRuntime(c, id) ==
    IF id \in DOMAIN c.alarms
    THEN [c EXCEPT !.storeRuntime = Put(@, id, to_restore_data(c.alarms[id]))]
    ELSE c

_schedule_alarm(c, id, t) ==
    IF id \notin DOMAIN c.alarms THEN c
    ELSE
    With(c.alarms[id], LAMBDA alarm :
    With(_calculate_next_trigger(alarm.data, t), LAMBDA next_trigger :
    With(next_trigger - alarm.data.pre_alarm_duration * 60, LAMBDA pre_alarm_time :
    With([c EXCEPT !.alarms[id].rt.next_trigger = next_trigger], LAMBDA c1 :
        IF ~alarm.data.enabled \/ alarm.data.skip_next \/ next_trigger = NoTime
        THEN _cancel_scheduled_callback([c EXCEPT !.alarms[id].rt.next_trigger = NoTime], id)
        ELSE [(IF alarm.data.pre_alarm_duration > 0 /\ pre_alarm_time > t
               THEN _schedule_pre_alarm(c1, id, pre_alarm_time)
               ELSE c1) EXCEPT !.scheduled = Put(@, id, Timer(next_trigger))]))))

\* _async_trigger_alarm up to the await of the alarm script:
\* ok tells whether the transition to ringing was made
trigger_begin(c, id, trigger_type, t) ==
    IF id \notin DOMAIN c.alarms THEN [ok |-> FALSE, c |-> c]
    ELSE With(Transition(c, id, RINGING, trigger_type, FALSE, t), LAMBDA r :
             IF ~r.ok THEN [ok |-> FALSE, c |-> c]
             ELSE [ok |-> TRUE,
                   c |-> _fire_event(r.c, EventOf("triggered", id, r.c.alarms[id]))])

\* _async_trigger_alarm after the alarm script: the auto-dismiss timer
trigger_end(c, id, auto_dismiss_timeout, t) ==
    _schedule_auto_dismiss(c, id, t + auto_dismiss_timeout * 60)

-----------------------------------------------------------------------------
(* Bounds and the inputs the environment draws from *)

MaxMinutes == 14         \* the clock stops MaxMinutes minutes after T0
MaxSnoozeCfg == 1        \* max_snooze_count is drawn from 0..MaxSnoozeCfg
MaxTasks == 1            \* handlers suspended at the same time
MaxCmds == 4             \* commands in one behaviour
MaxRestarts == 3         \* starts, stops and crashes in one behaviour
JITTER == 2              \* the Main timer's handler runs up to JITTER seconds late

AlarmIds == {"a1"}
T0 == 6 * 3600 + 50 * 60                       \* Monday 06:50:00
Horizon == T0 + MaxMinutes * 60
AlarmTimes == {[h |-> 7, m |-> 1]}
DayChoices == {{"tuesday"}}

\* the instants, besides those at which a timer is due, at which something happens
FreeInstants == {7 * 3600 + 3 * 60}

AlarmData(en, days, one, maxs, pre, scr) ==
    [enabled |-> en, time |-> [h |-> 7, m |-> 0], days |-> days, one_time |-> one,
     skip_next |-> FALSE, snooze_duration |-> 2, max_snooze_count |-> maxs,
     auto_dismiss_timeout |-> 3, pre_alarm_duration |-> pre, scripts |-> scr]

\* what create_alarm / the config flow can hand to async_add_alarm
NewAlarms ==
    {AlarmData(TRUE, {"monday", "tuesday"}, FALSE, MaxSnoozeCfg, 0, FALSE),
     AlarmData(TRUE, {"monday", "tuesday"}, FALSE, MaxSnoozeCfg, 0, TRUE),
     AlarmData(TRUE, {"monday", "tuesday"}, FALSE, MaxSnoozeCfg, 5, FALSE),
     AlarmData(TRUE, {"monday", "tuesday"}, TRUE, MaxSnoozeCfg, 0, FALSE)}

\* AlarmData.validate
validate(alarm_data) ==
    /\ alarm_data.time.h \in 0..23 /\ alarm_data.time.m \in 0..59
    /\ alarm_data.days \subseteq {WEEKDAYS[i] : i \in 1..7}
    /\ alarm_data.snooze_duration >= 1
    /\ alarm_data.max_snooze_count >= 0
    /\ alarm_data.auto_dismiss_timeout >= 1
    /\ alarm_data.pre_alarm_duration >= 0

-----------------------------------------------------------------------------
(* Suspended handlers, and what a step reports *)

Task(op, id, pc, old, adt) ==
    [op |-> op, id |-> id, pc |-> pc, old |-> old, adt |-> adt, rest |-> {}]
\* a handler suspended inside a loop over alarms: rest are the alarms still to visit
TaskR(op, id, pc, rest, adt) ==
    [op |-> op, id |-> id, pc |-> pc, old |-> "", adt |-> adt, rest |-> rest]
Report(op, id, done, ret) == [op |-> op, id |-> id, done |-> done, ret |-> ret]

\* The step's outcome: the coordinator's state c, the handlers left suspended, the report
Commit(c, ts, rep) ==
    /\ alarms' = c.alarms
    /\ storeAlarms' = c.storeAlarms
    /\ storeRuntime' = c.storeRuntime
    /\ scheduled' = c.scheduled
    /\ preAlarmCb' = c.preAlarmCb
    /\ snoozeCb' = c.snoozeCb
    /\ autoDismissCb' = c.autoDismissCb
    /\ lastTriggerTimes' = c.lastTriggerTimes
    /\ mainRuns' = c.mainRuns
    /\ missedAt' = c.missedAt
    /\ oneTimeDone' = c.oneTimeDone
    /\ skipDue' = c.skipDue
    /\ orphans' = c.orphans
    /\ events' = c.events
    /\ tasks' = ts
    /\ last' = rep

CanSuspend(t) == t \notin tasks /\ Cardinality(tasks) < MaxTasks

HasScripts(c, id) == id \in DOMAIN c.alarms /\ c.alarms[id].data.scripts

\* A segment ends with the handler done (what it returns) or suspended at an await
Done(c, ret) == [c |-> c, susp |-> {}, ret |-> ret]
Susp(c, task) == [c |-> c, susp |-> {task}, ret |-> FALSE]

Active == {RINGING, SNOOZED, PRE_ALARM}
StateOf(c, id) == c.alarms[id].rt.state

-----------------------------------------------------------------------------
(* coordinator.py: the handlers, segment by segment *)

\* _async_trigger_alarm as called by the handler `op`
trigger(c, op, id, trigger_type, t) ==
    With(trigger_begin(c, id, trigger_type, t), LAMBDA r :
    IF ~r.ok THEN Done(r.c, TRUE)
    ELSE With(r.c.alarms[id].data.auto_dismiss_timeout, LAMBDA adt :
         IF HasScripts(r.c, id)
         THEN Susp(r.c, Task(op, id, "trigger_end", "", adt))
         ELSE Done(trigger_end(r.c, id, adt, t), TRUE)))

\* _async_handle_alarm_trigger: the duplicate-trigger guard, then the trigger
_async_handle_alarm_trigger(c, id, t) ==
    IF id \notin DOMAIN c.alarms THEN Done(c, TRUE)
    ELSE IF /\ id \in DOMAIN c.lastTriggerTimes
            /\ t - c.lastTriggerTimes[id] < DUPLICATE_TRIGGER_WINDOW
    THEN Done(c, TRUE)
    ELSE trigger([c EXCEPT !.lastTriggerTimes = Put(@, id, t)],
                 "main_timer", id, TRIGGER_SCHEDULED, t)

\* _async_handle_pre_alarm (the pre-alarm script is its last await)
_async_handle_pre_alarm(c, id, t) ==
    IF id \notin DOMAIN c.alarms THEN Done(c, TRUE)
    ELSE IF StateOf(c, id) # ARMED THEN Done(c, TRUE)
    ELSE LET r == Transition(c, id, PRE_ALARM, NoTrigger, FALSE, t)
         IN  Done(_fire_event(r.c, EventOf("pre_alarm", id, r.c.alarms[id])), TRUE)

_async_handle_snooze_end_mut_no_guard(c, id, t) ==
    IF id \notin DOMAIN c.alarms THEN Done(c, TRUE)
    ELSE trigger(c, "snooze_end", id, TRIGGER_SCHEDULED, t)

\* _async_handle_snooze_end
_async_handle_snooze_end(c, id, t) ==
    IF id \notin DOMAIN c.alarms THEN Done(c, TRUE)
    ELSE IF StateOf(c, id) # SNOOZED THEN Done(c, TRUE)
    ELSE trigger(c, "snooze_end", id, TRIGGER_SCHEDULED, t)

\* the end of async_dismiss and _async_handle_auto_dismiss for a one-time alarm,
\* after the store write
finish_disable(c, id, t) ==
    Done([Transition(c, id, DISABLED, NoTrigger, FALSE, t).c
             EXCEPT !.oneTimeDone = IF id \in DOMAIN c.alarms THEN @ \cup {id} ELSE @], TRUE)

\* "Handle one-time alarm" / "Re-arm and schedule next" of async_dismiss and
\* _async_handle_auto_dismiss
finish_rearm(c, op, id, t) ==
    IF id \notin DOMAIN c.alarms THEN Done(c, TRUE)
    ELSE IF c.alarms[id].data.one_time
    THEN LET c1 == StoreUpdate([c EXCEPT !.alarms[id].data.enabled = FALSE], id)
         IN  IF id \in DOMAIN c.storeAlarms
             THEN Susp(c1, Task(op, id, "disable", "", 0))
             ELSE finish_disable(c1, id, t)
    ELSE Done(_schedule_alarm(Transition(c, id, ARMED, NoTrigger, FALSE, t).c, id, t), TRUE)

\* _async_handle_auto_dismiss up to the post-alarm script
_async_handle_auto_dismiss(c, id, t) ==
    IF id \notin DOMAIN c.alarms THEN Done(c, TRUE)
    ELSE IF StateOf(c, id) \notin {RINGING, SNOOZED} THEN Done(c, TRUE)
    ELSE LET c1 == Transition(c, id, AUTO_DISMISSED, NoTrigger, FALSE, t).c
             c2 == _fire_event(c1, EventOf("auto_dismissed", id, c1.alarms[id]))
         IN  IF HasScripts(c2, id)
             THEN Susp(c2, Task("auto_dismiss", id, "rearm", "", 0))
             ELSE finish_rearm(c2, "auto_dismiss", id, t)

\* async_snooze after the on-snooze script: the runtime state is saved
snooze_save(c, id) == Done(StoreSaveRuntime(c, id), TRUE)

async_snooze_mut_no_cap(c, id, t) ==
    IF id \notin DOMAIN c.alarms THEN Done(c, FALSE)
    ELSE IF StateOf(c, id) # RINGING THEN Done(c, FALSE)
    ELSE LET snooze_end == t + c.alarms[id].data.snooze_duration * 60
             c1 == Transition(c, id, SNOOZED, NoTrigger, FALSE, t).c
             c2 == _cancel_auto_dismiss_callback(c1, id)
             c3 == _schedule_snooze_end(c2, id, snooze_end)
             c4 == _fire_event(c3, EventOf("snoozed", id, c3.alarms[id]))
         IN  IF HasScripts(c4, id)
             THEN Susp(c4, Task("snooze", id, "save", "", 0))
             ELSE snooze_save(c4, id)

\* async_snooze
async_snooze(c, id, t) ==
    IF id \notin DOMAIN c.alarms THEN Done(c, FALSE)
    ELSE IF StateOf(c, id) # RINGING THEN Done(c, FALSE)
    ELSE IF c.alarms[id].rt.snooze_count >= c.alarms[id].data.max_snooze_count
    THEN Done(c, FALSE)
    ELSE LET snooze_end == t + c.alarms[id].data.snooze_duration * 60
             c1 == Transition(c, id, SNOOZED, NoTrigger, FALSE, t).c
             c2 == _cancel_auto_dismiss_callback(c1, id)
             c3 == _schedule_snooze_end(c2, id, snooze_end)
             c4 == _fire_event(c3, EventOf("snoozed", id, c3.alarms[id]))
         IN  IF HasScripts(c4, id)
             THEN Susp(c4, Task("snooze", id, "save", "", 0))
             ELSE snooze_save(c4, id)

\* async_dismiss up to the on-dismiss and post-alarm scripts
async_dismiss(c, id, t) ==
    IF id \notin DOMAIN c.alarms THEN Done(c, FALSE)
    ELSE IF StateOf(c, id) \notin {RINGING, SNOOZED, PRE_ALARM} THEN Done(c, FALSE)
    ELSE LET c1 == Transition(c, id, DISMISSED, NoTrigger, FALSE, t).c
             c2 == _cancel_snooze_callback(_cancel_auto_dismiss_callback(c1, id), id)
             c3 == _fire_event(c2, EventOf("dismissed", id, c2.alarms[id]))
         IN  IF HasScripts(c3, id)
             THEN Susp(c3, Task("dismiss", id, "rearm", "", 0))
             ELSE finish_rearm(c3, "dismiss", id, t)

\* async_test_alarm
async_test_alarm(c, id, t) ==
    IF id \notin DOMAIN c.alarms THEN Done(c, FALSE)
    ELSE IF StateOf(c, id) \in {RINGING, SNOOZED} THEN Done(c, FALSE)
    ELSE trigger(c, "test_alarm", id, TRIGGER_MANUAL_TEST, t)

\* async_set_enabled(True) after the store write
set_enabled_on(c, id, t) ==
    LET c1 == Transition(c, id, ARMED, NoTrigger, TRUE, t).c
        c2 == _schedule_alarm(c1, id, t)
    IN  IF id \in DOMAIN c.alarms
        THEN Done(_fire_event(c2, EventOf("armed", id, c2.alarms[id])), TRUE)
        ELSE Done(c2, TRUE)

\* async_set_enabled(False) after the on-cancel script
set_enabled_off_end(c, id, t) ==
    LET c1 == Transition(c, id, DISABLED, NoTrigger, TRUE, t).c
    IN  IF id \in DOMAIN c.alarms
        THEN Done(_fire_event(c1, EventOf("disarmed", id, c1.alarms[id])), TRUE)
        ELSE Done(c1, TRUE)

\* async_set_enabled(False) after the store write
set_enabled_off(c, id, t) ==
    LET c1 == _cancel_pre_alarm_callback(_cancel_scheduled_callback(c, id), id)
    IN  IF id \in DOMAIN c.alarms /\ StateOf(c, id) \in Active
        THEN LET c2 == _cancel_snooze_callback(_cancel_auto_dismiss_callback(c1, id), id)
             IN  IF HasScripts(c2, id)
                 THEN Susp(c2, Task("set_enabled", id, "off_end", "", 0))
                 ELSE set_enabled_off_end(c2, id, t)
        ELSE set_enabled_off_end(c1, id, t)

\* async_set_enabled
async_set_enabled(c, id, enabled, t) ==
    IF id \notin DOMAIN c.alarms THEN Done(c, FALSE)
    ELSE LET c1 == StoreUpdate([c EXCEPT !.alarms[id].data.enabled = enabled], id)
         IN  IF id \in DOMAIN c.storeAlarms
             THEN Susp(c1, Task("set_enabled", id, IF enabled THEN "on" ELSE "off", "", 0))
             ELSE IF enabled THEN set_enabled_on(c1, id, t) ELSE set_enabled_off(c1, id, t)

\* async_skip_next after the store write (the on-skip script is its last await)
skip_next_end(c, id) ==
    LET c1 == _cancel_pre_alarm_callback(_cancel_scheduled_callback(c, id), id)
    IN  IF id \in DOMAIN c.alarms
        THEN Done(_fire_event(c1, EventOf("skipped", id, c1.alarms[id])), TRUE)
        ELSE Done(c1, TRUE)

\* async_skip_next
async_skip_next(c, id, t) ==
    IF id \notin DOMAIN c.alarms THEN Done(c, FALSE)
    ELSE LET c1 == StoreUpdate([c EXCEPT !.alarms[id].data.skip_next = TRUE], id)
         IN  IF id \in DOMAIN c.storeAlarms
             THEN Susp(c1, Task("skip_next", id, "end", "", 0))
             ELSE skip_next_end(c1, id)

\* async_cancel_skip, async_set_days after the store write
reschedule_if_armed(c, id, t) ==
    IF id \in DOMAIN c.alarms /\ StateOf(c, id) = ARMED
    THEN Done(_schedule_alarm(c, id, t), TRUE)
    ELSE Done(c, TRUE)

\* async_cancel_skip
async_cancel_skip(c, id, t) ==
    IF id \notin DOMAIN c.alarms THEN Done(c, FALSE)
    ELSE LET c1 == StoreUpdate([c EXCEPT !.alarms[id].data.skip_next = FALSE], id)
         IN  IF id \in DOMAIN c.storeAlarms
             THEN Susp(c1, Task("cancel_skip", id, "end", "", 0))
             ELSE reschedule_if_armed(c1, id, t)

\* async_set_time after the store write
set_time_end(c, id, t) ==
    LET c1 == reschedule_if_armed(c, id, t).c
    IN  IF id \in DOMAIN c.alarms
        THEN Done(_fire_event(c1, EventOf("time_changed", id, c1.alarms[id])), TRUE)
        ELSE Done(c1, TRUE)

async_set_time_mut_no_rollback(c, id, time, t) ==
    IF id \notin DOMAIN c.alarms THEN Done(c, FALSE)
    ELSE IF ~validate([c.alarms[id].data EXCEPT !.time = time])
    THEN Done([c EXCEPT !.alarms[id].data.time = time], FALSE)
    ELSE LET c1 == StoreUpdate([c EXCEPT !.alarms[id].data.time = time], id)
         IN  IF id \in DOMAIN c.storeAlarms
             THEN Susp(c1, Task("set_time", id, "end", "", 0))
             ELSE set_time_end(c1, id, t)

\* async_set_time
async_set_time(c, id, time, t) ==
    IF id \notin DOMAIN c.alarms THEN Done(c, FALSE)
    ELSE IF ~validate([c.alarms[id].data EXCEPT !.time = time]) THEN Done(c, FALSE)
    ELSE LET c1 == StoreUpdate([c EXCEPT !.alarms[id].data.time = time], id)
         IN  IF id \in DOMAIN c.storeAlarms
             THEN Susp(c1, Task("set_time", id, "end", "", 0))
             ELSE set_time_end(c1, id, t)

async_set_days_mut_clears_skip(c, id, days, t) ==
    IF id \notin DOMAIN c.alarms THEN Done(c, FALSE)
    ELSE LET c1 == StoreUpdate([c EXCEPT !.alarms[id].data.days = days,
                                         !.alarms[id].data.skip_next = FALSE], id)
         IN  IF id \in DOMAIN c.storeAlarms
             THEN Susp(c1, Task("set_days", id, "end", "", 0))
             ELSE reschedule_if_armed(c1, id, t)

\* async_set_days
async_set_days(c, id, days, t) ==
    IF id \notin DOMAIN c.alarms THEN Done(c, FALSE)
    ELSE LET c1 == StoreUpdate([c EXCEPT !.alarms[id].data.days = days], id)
         IN  IF id \in DOMAIN c.storeAlarms
             THEN Susp(c1, Task("set_days", id, "end", "", 0))
             ELSE reschedule_if_armed(c1, id, t)

\* async_update_alarm after the store write
update_alarm_end(c, id, old_state, t) ==
    IF id \notin DOMAIN c.alarms THEN Done(c, TRUE)
    ELSE IF c.alarms[id].data.enabled /\ old_state \in {ARMED, DISABLED}
    THEN Done(_schedule_alarm(Transition(c, id, ARMED, NoTrigger, FALSE, t).c, id, t), TRUE)
    ELSE IF ~c.alarms[id].data.enabled
    THEN Done(Transition(c, id, DISABLED, NoTrigger, FALSE, t).c, TRUE)
    ELSE Done(c, TRUE)

\* async_update_alarm, handed the alarm's own data object as the options flow
\* has edited it
async_update_alarm(c, id, alarm_data, t) ==
    IF id \notin DOMAIN c.alarms THEN Done(c, FALSE)
    ELSE LET old_state == StateOf(c, id)
             c1 == _cancel_scheduled_callback([c EXCEPT !.alarms[id].data = alarm_data], id)
             c2 == StoreUpdate(c1, id)
         IN  IF id \in DOMAIN c.storeAlarms
             THEN Susp(c2, Task("update_alarm", id, "end", old_state, 0))
             ELSE update_alarm_end(c2, id, old_state, t)

\* async_remove_alarm after the store write: del self._alarms[alarm_id]
remove_alarm_end(c, id) ==
    IF id \in DOMAIN c.alarms
    THEN Done([c EXCEPT !.alarms = Pop(@, id)], TRUE)
    ELSE Done(c, FALSE)

async_remove_alarm_mut_no_guard(c, id) ==
    LET c1 == _cancel_pre_alarm_callback(_cancel_auto_dismiss_callback(
                  _cancel_snooze_callback(_cancel_scheduled_callback(c, id), id), id), id)
        c2 == [c1 EXCEPT !.lastTriggerTimes = Pop(@, id)]
    IN  IF id \in DOMAIN c.storeAlarms
        THEN Susp([c2 EXCEPT !.storeAlarms = Pop(@, id), !.storeRuntime = Pop(@, id)],
                  Task("remove_alarm", id, "end", "", 0))
        ELSE remove_alarm_end(c2, id)

\* async_remove_alarm, with store.async_remove_alarm
async_remove_alarm(c, id) ==
    IF id \notin DOMAIN c.alarms THEN Done(c, FALSE)
    ELSE LET c1 == _cancel_pre_alarm_callback(_cancel_auto_dismiss_callback(
                       _cancel_snooze_callback(_cancel_scheduled_callback(c, id), id), id), id)
             c2 == [c1 EXCEPT !.lastTriggerTimes = Pop(@, id)]
         IN  IF id \in DOMAIN c.storeAlarms
             THEN Susp([c2 EXCEPT !.storeAlarms = Pop(@, id), !.storeRuntime = Pop(@, id)],
                       Task("remove_alarm", id, "end", "", 0))
             ELSE remove_alarm_end(c2, id)

-----------------------------------------------------------------------------
(* coordinator.py: start-up and the health check *)

_async_setup_alarm_mut_no_expired(c, op, alarm_id, alarm_data, t) ==
    With(validate(alarm_data), LAMBDA valid :
    With(IF valid THEN alarm_data ELSE [alarm_data EXCEPT !.enabled = FALSE], LAMBDA data :
    With(IF valid THEN c
         ELSE _fire_event(
                  IF alarm_id \in DOMAIN c.storeAlarms
                  THEN [c EXCEPT !.storeAlarms[alarm_id] = data] ELSE c,
                  [EventOf("health_warning", alarm_id, AlarmStateMachine(data))
                      EXCEPT !.alarm_state = "none"]), LAMBDA c0 :
    With(IF alarm_id \in DOMAIN c0.storeRuntime
         THEN restore_from_data(AlarmStateMachine(data), c0.storeRuntime[alarm_id])
         ELSE AlarmStateMachine(data), LAMBDA alarm :
    With(IF alarm.rt.state = ARMED
         THEN _schedule_alarm([c0 EXCEPT !.alarms = Put(@, alarm_id, alarm)], alarm_id, t)
         ELSE [c0 EXCEPT !.alarms = Put(@, alarm_id, alarm)], LAMBDA c2 :
        IF alarm.rt.state = SNOOZED /\ alarm.rt.snooze_end_time # NoTime
        THEN IF alarm.rt.snooze_end_time > t
             THEN Done(_schedule_snooze_end(c2, alarm_id, alarm.rt.snooze_end_time), TRUE)
             ELSE Done(c2, TRUE)
        ELSE Done(c2, TRUE))))))

\* _async_setup_alarm as called by the handler `op`
_async_setup_alarm(c, op, alarm_id, alarm_data, t) ==
    With(validate(alarm_data), LAMBDA valid :
    With(IF valid THEN alarm_data ELSE [alarm_data EXCEPT !.enabled = FALSE], LAMBDA data :
    With(IF valid THEN c
         ELSE _fire_event(
                  IF alarm_id \in DOMAIN c.storeAlarms
                  THEN [c EXCEPT !.storeAlarms[alarm_id] = data] ELSE c,
                  [EventOf("health_warning", alarm_id, AlarmStateMachine(data))
                      EXCEPT !.alarm_state = "none"]), LAMBDA c0 :
    With(IF alarm_id \in DOMAIN c0.storeRuntime
         THEN restore_from_data(AlarmStateMachine(data), c0.storeRuntime[alarm_id])
         ELSE AlarmStateMachine(data), LAMBDA alarm :
    With(IF alarm.rt.state = ARMED
         THEN _schedule_alarm([c0 EXCEPT !.alarms = Put(@, alarm_id, alarm)], alarm_id, t)
         ELSE [c0 EXCEPT !.alarms = Put(@, alarm_id, alarm)], LAMBDA c2 :
        IF alarm.rt.state = SNOOZED /\ alarm.rt.snooze_end_time # NoTime
        THEN IF alarm.rt.snooze_end_time > t
             THEN Done(_schedule_snooze_end(c2, alarm_id, alarm.rt.snooze_end_time), TRUE)
             ELSE trigger(c2, op, alarm_id, TRIGGER_SCHEDULED, t)
        ELSE Done(c2, TRUE))))))

\* the loop of _async_check_missed_alarms over the alarms `ids`, then
\* _schedule_health_check (the health check itself runs as time passes, in Advance)
RECURSIVE _async_check_missed_alarms(_, _, _)
_async_check_missed_alarms(c, ids, t) ==
    IF ids = {} THEN Done(c, TRUE)
    ELSE With(CHOOSE x \in ids : TRUE, LAMBDA alarm_id :
         With(ids \ {alarm_id}, LAMBDA rest :
         IF alarm_id \notin DOMAIN c.alarms
         THEN _async_check_missed_alarms(c, rest, t)
         ELSE
         With(c.alarms[alarm_id], LAMBDA alarm :
         With(_calculate_next_trigger(alarm.data, t), LAMBDA expected_trigger :
             IF alarm.rt.state # ARMED \/ ~alarm.data.enabled
                \/ expected_trigger = NoTime
             THEN _async_check_missed_alarms(c, rest, t)
             ELSE IF /\ expected_trigger < t
                     /\ t - expected_trigger <= DEFAULT_MISSED_ALARM_GRACE_PERIOD * 60
             THEN With(trigger(_fire_event(c, [EventOf("missed", alarm_id, alarm) EXCEPT
                                                 !.missed_by_seconds = t - expected_trigger]),
                               "start", alarm_id, TRIGGER_MISSED_RECOVERY, t), LAMBDA r :
                      IF r.susp # {}
                      THEN Susp(r.c, TaskR("start", alarm_id, "missed_trigger_end", rest,
                                           alarm.data.auto_dismiss_timeout))
                      ELSE _async_check_missed_alarms(r.c, rest, t))
             ELSE _async_check_missed_alarms(c, rest, t)))))

\* the loop of async_start over the stored alarms `ids`, then the missed-alarm check
RECURSIVE start_setup(_, _, _)
start_setup(c, ids, t) ==
    IF ids = {} THEN _async_check_missed_alarms(c, DOMAIN c.alarms, t)
    ELSE With(CHOOSE x \in ids : TRUE, LAMBDA alarm_id :
         With(ids \ {alarm_id}, LAMBDA rest :
         IF alarm_id \notin DOMAIN c.storeAlarms THEN start_setup(c, rest, t)
         ELSE
         With(_async_setup_alarm(c, "start", alarm_id, c.storeAlarms[alarm_id], t), LAMBDA r :
             IF r.susp # {}
             THEN Susp(r.c, TaskR("start", alarm_id, "setup_trigger_end", rest,
                                  r.c.alarms[alarm_id].data.auto_dismiss_timeout))
             ELSE start_setup(r.c, rest, t))))

\* one alarm's turn in the loop of _async_run_health_check, after a re-trigger's
\* script where there is one
health_ringing(c, alarm_id, t) ==
    IF /\ alarm_id \in DOMAIN c.alarms
       /\ StateOf(c, alarm_id) = RINGING
       /\ alarm_id \notin DOMAIN c.autoDismissCb
    THEN [issue |-> TRUE,
          c |-> _schedule_auto_dismiss(c, alarm_id,
                    t + c.alarms[alarm_id].data.auto_dismiss_timeout * 60)]
    ELSE [issue |-> FALSE, c |-> c]

\* the end of _async_run_health_check: the warning event
health_end(c, issues) ==
    IF issues
    THEN Done(_fire_event(c, [type |-> "health_warning", id |-> "", alarm_state |-> "none",
                              snooze_count |-> 0, trigger_type |-> NoTrigger,
                              missed_by_seconds |-> NoTime]), TRUE)
    ELSE Done(c, TRUE)

\* the loop of _async_run_health_check over the alarms `ids`
RECURSIVE health_loop(_, _, _, _)
health_loop(c, ids, issues, t) ==
    IF ids = {} THEN health_end(c, issues)
    ELSE With(CHOOSE x \in ids : TRUE, LAMBDA alarm_id :
         With(ids \ {alarm_id}, LAMBDA rest :
         IF alarm_id \notin DOMAIN c.alarms THEN health_loop(c, rest, issues, t)
         ELSE
         With(c.alarms[alarm_id], LAMBDA alarm :
         With(/\ alarm.data.enabled /\ alarm.rt.state = ARMED
              /\ alarm_id \notin DOMAIN c.scheduled, LAMBDA i1 :
         With(IF i1 THEN _schedule_alarm(c, alarm_id, t) ELSE c, LAMBDA c1 :
         With(/\ c1.alarms[alarm_id].rt.state = SNOOZED
              /\ alarm_id \notin DOMAIN c1.snoozeCb, LAMBDA i2 :
         With(IF i2 THEN trigger(c1, "health_check", alarm_id, TRIGGER_SCHEDULED, t)
              ELSE Done(c1, TRUE), LAMBDA r :
             IF r.susp # {}
             THEN Susp(r.c, TaskR("health_check", alarm_id, "trigger_end", rest,
                                  alarm.data.auto_dismiss_timeout))
             ELSE With(health_ringing(r.c, alarm_id, t), LAMBDA h :
                  health_loop(h.c, rest, issues \/ i1 \/ i2 \/ h.issue, t)))))))))

-----------------------------------------------------------------------------
(* The steps *)

TypeOK ==
    /\ now \in 0..Horizon
    /\ running \in BOOLEAN
    /\ DOMAIN alarms \subseteq AlarmIds
    /\ DOMAIN storeAlarms \subseteq AlarmIds
    /\ Cardinality(tasks) <= MaxTasks

\* harness of SpecPair: no command of the pair has been issued
NoPair == [phase |-> 0, id |-> "", a |-> "", b |-> "", before |-> << >>]

\* the state after the integration is installed, before its entry is set up
Init ==
    /\ now = T0
    /\ running = FALSE
    /\ alarms = EmptyDict
    /\ storeAlarms = EmptyDict
    /\ storeRuntime = EmptyDict
    /\ scheduled = EmptyDict
    /\ preAlarmCb = EmptyDict
    /\ snoozeCb = EmptyDict
    /\ autoDismissCb = EmptyDict
    /\ lastTriggerTimes = EmptyDict
    /\ tasks = {}
    /\ events = << >>
    /\ last = Report("init", "", TRUE, TRUE)
    /\ ncmd = 0
    /\ nrestart = 0
    /\ mainRuns = EmptyDict
    /\ missedAt = EmptyDict
    /\ oneTimeDone = {}
    /\ skipDue = EmptyDict
    /\ orphans = {}
    /\ calc = NoPair

\* One step of the handler `op`: r is what its segment did; self holds the
\* suspended handler the step resumes, if any
Step(op, id, r, self) ==
    LET ts == tasks \ self IN
    /\ r.susp \cap ts = {}
    /\ Cardinality(ts \cup r.susp) <= MaxTasks
    /\ Commit(r.c, ts \cup r.susp, Report(op, id, r.susp = {}, r.ret))
    /\ UNCHANGED <<now, running, calc>>

\* a command is one more of the MaxCmds the environment issues, a start, stop or
\* crash one more of the MaxRestarts; timers and resumed handlers are not counted
Command ==
    /\ running
    /\ ncmd < MaxCmds /\ ncmd' = ncmd + 1
    /\ UNCHANGED nrestart
Restart == nrestart < MaxRestarts /\ nrestart' = nrestart + 1 /\ UNCHANGED ncmd
Internal == UNCHANGED <<ncmd, nrestart>>

\* the instants at which the timers of the dict d that have not fired are due
DueIn(d) == {d[id].at : id \in {x \in DOMAIN d : ~d[x].fired}}
PendingAt == DueIn(scheduled) \cup DueIn(preAlarmCb) \cup DueIn(snoozeCb) \cup DueIn(autoDismissCb)

\* the latest occurrence of the alarm in the half-open interval from t0 to t1
\* (t0 excluded), NoTime if there is none
OccurrenceIn(alarm_data, t0, t1) ==
    LET occ == {x \in {AtTime(d, alarm_data.time) : d \in DateOf(t0)..DateOf(t1)} :
                   DayName(DateOf(x)) \in alarm_data.days /\ t0 < x /\ x <= t1}
    IN  IF occ = {} THEN NoTime ELSE CHOOSE x \in occ : \A y \in occ : y <= x

\* the coordinator's state when the clock reaches t, with the history of the
\* occurrences of stored, enabled alarms that passed while it was down; the timers
\* a stopped coordinator has left fire on the way
Passed(t) ==
    [Cur EXCEPT !.orphans = {o \in @ : o.at > t},
                !.missedAt =
        IF running THEN EmptyDict
        ELSE [id \in {x \in DOMAIN storeAlarms :
                         /\ storeAlarms[x].enabled /\ ~storeAlarms[x].skip_next
                         /\ \/ OccurrenceIn(storeAlarms[x], now - 1, t - 1) # NoTime
                            \/ x \in DOMAIN missedAt} |->
                 IF OccurrenceIn(storeAlarms[id], now - 1, t - 1) # NoTime
                 THEN OccurrenceIn(storeAlarms[id], now - 1, t - 1)
                 ELSE missedAt[id]]]

\* Time passes, to the next instant at which something can happen; the Main
\* timer's handler runs at most JITTER seconds after the timer is due. The
\* health-check timer, set from the end of async_start and of each check to
\* HEALTH_CHECK_INTERVAL seconds later, fires on the way
Advance ==
    /\ \E t \in FreeInstants \cup PendingAt \cup {a + JITTER : a \in DueIn(scheduled)} :
        /\ t > now
        /\ t <= Horizon
        /\ \A a \in DueIn(scheduled) : t <= a + JITTER
        /\ \A a \in DueIn(preAlarmCb) \cup DueIn(snoozeCb) \cup DueIn(autoDismissCb) : t <= a
        /\ now' = t
        /\ IF /\ running
              /\ t - now >= HEALTH_CHECK_INTERVAL
              /\ \A k \in tasks : k.op \notin {"start", "health_check"}
           THEN LET r == health_loop(Passed(t), DOMAIN alarms, FALSE, t) IN
                /\ r.susp \cap tasks = {}
                /\ Cardinality(tasks \cup r.susp) <= MaxTasks
                /\ Commit(r.c, tasks \cup r.susp, Report("advance", "", r.susp = {}, TRUE))
           ELSE Commit(Passed(t), tasks, Report("advance", "", TRUE, TRUE))
    /\ UNCHANGED <<running, ncmd, nrestart, calc>>

\* the timers of the dict d that are registered and have not fired
Registered(kind, d) == {[kind |-> kind, id |-> id, at |-> d[id].at] : id \in {x \in DOMAIN d : ~d[x].fired}}

\* a new coordinator over the store, as async_setup_entry builds it; the timers the handlers of the old one have registered
\* since its async_stop stay registered with Home Assistant
NewCoordinator ==
    [Cur EXCEPT !.alarms = EmptyDict, !.scheduled = EmptyDict, !.preAlarmCb = EmptyDict,
                !.snoozeCb = EmptyDict, !.autoDismissCb = EmptyDict,
                !.lastTriggerTimes = EmptyDict, !.mainRuns = EmptyDict,
                !.orphans = @ \cup Registered("main", scheduled) \cup Registered("pre_alarm", preAlarmCb)
                              \cup Registered("snooze_end", snoozeCb)
                              \cup Registered("auto_dismiss", autoDismissCb)]

\* async_setup_entry: a new coordinator, and its async_start
Start ==
    /\ ~running /\ Restart
    /\ tasks = {}
    /\ LET r == start_setup(NewCoordinator, DOMAIN storeAlarms, now) IN
       /\ Cardinality(r.susp) <= MaxTasks
       /\ Commit(r.c, r.susp, Report("start", "", r.susp = {}, TRUE))
    /\ running' = TRUE
    /\ UNCHANGED <<now, calc>>

\* async_unload_entry: async_stop
Stop ==
    /\ running /\ Restart
    /\ LET c1 == [Cur EXCEPT !.scheduled = EmptyDict, !.preAlarmCb = EmptyDict,
                             !.snoozeCb = EmptyDict, !.autoDismissCb = EmptyDict]
           c2 == [c1 EXCEPT !.storeRuntime =
                      [id \in (DOMAIN storeRuntime) \cup (DOMAIN alarms) |->
                          IF id \in DOMAIN alarms THEN to_restore_data(alarms[id])
                          ELSE storeRuntime[id]]]
       IN  Commit(c2, tasks, Report("stop", "", TRUE, TRUE))
    /\ running' = FALSE
    /\ UNCHANGED <<now, calc>>

\* the process dies: what is in memory is lost, what was written stays
Crash ==
    /\ running /\ Restart
    /\ Commit([NewCoordinator EXCEPT !.orphans = {}], {}, Report("crash", "", TRUE, TRUE))
    /\ running' = FALSE
    /\ UNCHANGED <<now, calc>>

\* the timer of _schedule_alarm fires
FireMain(id) ==
    /\ Internal
    /\ Pending(scheduled, id) /\ scheduled[id].at <= now
    /\ LET r == _async_handle_alarm_trigger([Cur EXCEPT !.scheduled[id].fired = TRUE], id, now)
           run == [at |-> now, rang |-> HasEvent(r.c, "triggered", id)]
           before == IF id \in DOMAIN mainRuns THEN mainRuns[id] ELSE << >>
           runs == IF Len(before) = 2 THEN <<before[2], run>> ELSE Append(before, run)
       IN  Step("main_timer", id, [r EXCEPT !.c.mainRuns = Put(@, id, runs)], {})

\* the timer of _schedule_pre_alarm fires
FirePreAlarm(id) ==
    /\ Internal
    /\ Pending(preAlarmCb, id) /\ preAlarmCb[id].at <= now
    /\ Step("pre_alarm_timer", id,
            _async_handle_pre_alarm([Cur EXCEPT !.preAlarmCb[id].fired = TRUE], id, now), {})

\* the timer of _schedule_snooze_end fires
FireSnoozeEnd(id) ==
    /\ Internal
    /\ Pending(snoozeCb, id) /\ snoozeCb[id].at <= now
    /\ Step("snooze_end", id,
            _async_handle_snooze_end([Cur EXCEPT !.snoozeCb[id].fired = TRUE], id, now), {})

\* the timer of _schedule_auto_dismiss fires
FireAutoDismiss(id) ==
    /\ Internal
    /\ Pending(autoDismissCb, id) /\ autoDismissCb[id].at <= now
    /\ Step("auto_dismiss", id,
            _async_handle_auto_dismiss([Cur EXCEPT !.autoDismissCb[id].fired = TRUE], id, now), {})

\* what the options flow can make of an alarm's data before async_update_alarm
Edits(alarm_data) ==
    ({[alarm_data EXCEPT !.max_snooze_count = m] : m \in 0..MaxSnoozeCfg}
        \cup {[alarm_data EXCEPT !.pre_alarm_duration = 0]}) \ {alarm_data}

\* nothing of the coordinator or of the store refers to the id
Unused(id) ==
    /\ id \notin DOMAIN alarms /\ id \notin DOMAIN storeAlarms /\ id \notin DOMAIN storeRuntime
    /\ id \notin DOMAIN scheduled /\ id \notin DOMAIN preAlarmCb
    /\ id \notin DOMAIN snoozeCb /\ id \notin DOMAIN autoDismissCb
    /\ id \notin DOMAIN lastTriggerTimes
    /\ \A k \in tasks : k.id # id

\* async_add_alarm, with store.async_add_alarm; alarm ids are fresh
AddAlarm(id, alarm_data) ==
    /\ Command /\ Unused(id)
    /\ Step("add_alarm", id,
            Susp([Cur EXCEPT !.storeAlarms = Put(@, id, alarm_data),
                             !.oneTimeDone = @ \ {id}],
                 Task("add_alarm", id, "setup", "", 0)), {})

RemoveAlarm(id) == Command /\ Step("remove_alarm", id, async_remove_alarm(Cur, id), {})

UpdateAlarm(id) ==
    /\ Command /\ id \in DOMAIN alarms
    /\ \E alarm_data \in Edits(alarms[id].data) :
           Step("update_alarm", id, async_update_alarm(Cur, id, alarm_data, now), {})

\* async_set_enabled; enabling ends the history of a one-time dismissal
SetEnabled(id, enabled) ==
    /\ Command
    /\ Step("set_enabled", id,
            async_set_enabled([Cur EXCEPT !.oneTimeDone = IF enabled THEN @ \ {id} ELSE @],
                              id, enabled, now), {})

SetTime(id, time) == Command /\ Step("set_time", id, async_set_time(Cur, id, time, now), {})

SetDays(id, days) == Command /\ Step("set_days", id, async_set_days(Cur, id, days, now), {})

Snooze(id) == Command /\ Step("snooze", id, async_snooze(Cur, id, now), {})

Dismiss(id) == Command /\ Step("dismiss", id, async_dismiss(Cur, id, now), {})

\* async_skip_next; skipDue records the occurrence that was scheduled
SkipNext(id) ==
    /\ Command
    /\ LET due == IF id \in DOMAIN alarms /\ alarms[id].rt.state = ARMED
                     /\ Pending(scheduled, id)
                  THEN scheduled[id].at ELSE NoTime
       IN  Step("skip_next", id,
                async_skip_next([Cur EXCEPT !.skipDue = Put(@, id, due)], id, now), {})

CancelSkip(id) ==
    /\ Command
    /\ Step("cancel_skip", id, async_cancel_skip([Cur EXCEPT !.skipDue = Pop(@, id)], id, now), {})

TestAlarm(id) == Command /\ Step("test_alarm", id, async_test_alarm(Cur, id, now), {})

\* what the suspended handler k does when its await returns at the instant t, the
\* coordinator being in the state c
continue_in(c, k, t) ==
    With(k.id, LAMBDA id :
    With(trigger_end(c, id, IF id \in DOMAIN c.alarms
                              THEN c.alarms[id].data.auto_dismiss_timeout ELSE k.adt, t),
         LAMBDA ended :
        CASE k.op = "start" /\ k.pc = "setup_trigger_end" -> start_setup(ended, k.rest, t)
          [] k.op = "start" /\ k.pc = "missed_trigger_end" ->
                 _async_check_missed_alarms(ended, k.rest, t)
          [] k.op = "health_check" ->
                 health_loop(health_ringing(ended, id, t).c, k.rest, TRUE, t)
          [] k.op = "add_alarm" /\ k.pc = "setup" ->
                 IF id \in DOMAIN c.storeAlarms
                 THEN _async_setup_alarm(c, "add_alarm", id, c.storeAlarms[id], t)
                 ELSE Done(c, TRUE)
          [] k.op \in {"main_timer", "snooze_end", "test_alarm", "add_alarm"}
                 /\ k.pc = "trigger_end" -> Done(ended, TRUE)
          [] k.op \in {"dismiss", "auto_dismiss"} /\ k.pc = "rearm" ->
                 finish_rearm(c, k.op, id, t)
          [] k.op \in {"dismiss", "auto_dismiss"} /\ k.pc = "disable" ->
                 finish_disable(c, id, t)
          [] k.op = "snooze" -> snooze_save(c, id)
          [] k.op = "set_enabled" /\ k.pc = "on" -> set_enabled_on(c, id, t)
          [] k.op = "set_enabled" /\ k.pc = "off" -> set_enabled_off(c, id, t)
          [] k.op = "set_enabled" /\ k.pc = "off_end" -> set_enabled_off_end(c, id, t)
          [] k.op = "skip_next" -> skip_next_end(c, id)
          [] k.op \in {"cancel_skip", "set_days"} -> reschedule_if_armed(c, id, t)
          [] k.op = "set_time" -> set_time_end(c, id, t)
          [] k.op = "update_alarm" -> update_alarm_end(c, id, k.old, t)
          [] k.op = "remove_alarm" -> remove_alarm_end(c, id)))

\* what a suspended handler does when its await returns
Continue(k) == continue_in(Cur, k, now)

Resume(k) == k \in tasks /\ Internal /\ Step(k.op, k.id, Continue(k), {k})

Next ==
    \/ Advance
    \/ Start
    \/ Stop
    \/ Crash
    \/ \E id \in AlarmIds : FireMain(id)
    \/ \E id \in AlarmIds : FirePreAlarm(id)
    \/ \E id \in AlarmIds : FireSnoozeEnd(id)
    \/ \E id \in AlarmIds : FireAutoDismiss(id)
    \/ \E id \in AlarmIds, alarm_data \in NewAlarms : AddAlarm(id, alarm_data)
    \/ \E id \in AlarmIds : RemoveAlarm(id)
    \/ \E id \in AlarmIds : UpdateAlarm(id)
    \/ \E id \in AlarmIds, enabled \in BOOLEAN : SetEnabled(id, enabled)
    \/ \E id \in AlarmIds, time \in AlarmTimes : SetTime(id, time)
    \/ \E id \in AlarmIds, days \in DayChoices : SetDays(id, days)
    \/ \E id \in AlarmIds : Snooze(id)
    \/ \E id \in AlarmIds : Dismiss(id)
    \/ \E id \in AlarmIds : SkipNext(id)
    \/ \E id \in AlarmIds : CancelSkip(id)
    \/ \E id \in AlarmIds : TestAlarm(id)
    \/ \E k \in tasks : Resume(k)

Spec == Init /\ [][Next]_vars

-----------------------------------------------------------------------------
(* AlarmStateMachine.transition_to on its own: one state machine in any state,
   asked for any transition *)

SMData == AlarmData(TRUE, {"monday", "tuesday"}, FALSE, MaxSnoozeCfg, 0, FALSE)

\* the runtime states a state machine can be in: any state, any snooze count
\* within the cap, ringing or not yet
SMRuntimes ==
    {[AlarmRuntimeState EXCEPT !.state = st, !.snooze_count = n,
                               !.current_trigger_type = tt, !.snooze_end_time = se] :
        st \in AlarmState, n \in 0..MaxSnoozeCfg,
        tt \in {NoTrigger, TRIGGER_SCHEDULED}, se \in {NoTime, T0 + 120}}

NoCall == [op |-> "none", from |-> DISABLED, to |-> DISABLED, force |-> FALSE,
           ok |-> FALSE, before |-> AlarmRuntimeState]

InitSM ==
    /\ now = T0
    /\ running = FALSE
    /\ \E rt \in SMRuntimes : alarms = [id \in AlarmIds |-> [data |-> SMData, rt |-> rt]]
    /\ storeAlarms = EmptyDict
    /\ storeRuntime = EmptyDict
    /\ scheduled = EmptyDict
    /\ preAlarmCb = EmptyDict
    /\ snoozeCb = EmptyDict
    /\ autoDismissCb = EmptyDict
    /\ lastTriggerTimes = EmptyDict
    /\ tasks = {}
    /\ events = << >>
    /\ last = Report("init", "", TRUE, TRUE)
    /\ ncmd = 0
    /\ nrestart = 0
    /\ mainRuns = EmptyDict
    /\ missedAt = EmptyDict
    /\ oneTimeDone = {}
    /\ skipDue = EmptyDict
    /\ orphans = {}
    /\ calc = NoCall

\* one call of transition_to; calc keeps what was asked and what was returned
CallTransition(id, target_state, trigger_type, force) ==
    LET r == transition_to(alarms[id], target_state, trigger_type, force, now + 1) IN
    /\ alarms' = [alarms EXCEPT ![id] = r.alarm]
    /\ calc' = [op |-> "transition_to", from |-> alarms[id].rt.state, to |-> target_state,
                force |-> force, ok |-> r.ok, before |-> alarms[id].rt]
    /\ UNCHANGED <<now, running, storeAlarms, storeRuntime, scheduled, preAlarmCb, snoozeCb,
                   autoDismissCb, lastTriggerTimes, tasks, events, last, ncmd, nrestart,
                   mainRuns, missedAt, oneTimeDone, skipDue, orphans>>

NextSM ==
    \E id \in AlarmIds, target_state \in AlarmState,
       trigger_type \in {TRIGGER_SCHEDULED, TRIGGER_MANUAL_TEST}, force \in BOOLEAN :
        /\ alarms[id].rt.snooze_count < MaxSnoozeCfg + 1
        /\ CallTransition(id, target_state, trigger_type, force)

SpecSM == InitSM /\ [][NextSM]_vars

-----------------------------------------------------------------------------
(* _calculate_next_trigger on its own: any alarm time and day set, at any instant
   of the week *)

CalcTimes == {[h |-> 7, m |-> 0], [h |-> 0, m |-> 0], [h |-> 23, m |-> 59]}
CalcDays == SUBSET {"monday", "tuesday", "friday", "sunday"}
CalcInstants ==
    {d * 86400 + o : d \in 0..6,
                     o \in {0, 7 * 3600 - 1, 7 * 3600, 7 * 3600 + 1, 86399}}

NoCalc == [op |-> "none", t |-> 0, time |-> [h |-> 0, m |-> 0], days |-> {},
           result |-> NoTime]

InitCalc ==
    /\ now \in CalcInstants
    /\ running = FALSE
    /\ alarms = EmptyDict
    /\ storeAlarms = EmptyDict
    /\ storeRuntime = EmptyDict
    /\ scheduled = EmptyDict
    /\ preAlarmCb = EmptyDict
    /\ snoozeCb = EmptyDict
    /\ autoDismissCb = EmptyDict
    /\ lastTriggerTimes = EmptyDict
    /\ tasks = {}
    /\ events = << >>
    /\ last = Report("init", "", TRUE, TRUE)
    /\ ncmd = 0
    /\ nrestart = 0
    /\ mainRuns = EmptyDict
    /\ missedAt = EmptyDict
    /\ oneTimeDone = {}
    /\ skipDue = EmptyDict
    /\ orphans = {}
    /\ calc = NoCalc

\* one call of _calculate_next_trigger at the instant `now`
Calculate(time, days) ==
    LET alarm_data == [SMData EXCEPT !.time = time, !.days = days] IN
    /\ calc' = [op |-> "calculate", t |-> now, time |-> time, days |-> days,
                result |-> _calculate_next_trigger(alarm_data, now)]
    /\ UNCHANGED <<now, running, alarms, storeAlarms, storeRuntime, scheduled, preAlarmCb,
                   snoozeCb, autoDismissCb, lastTriggerTimes, tasks, events, last, ncmd,
                   nrestart, mainRuns, missedAt, oneTimeDone, skipDue, orphans>>

NextCalc == \E time \in CalcTimes, days \in CalcDays : Calculate(time, days)

SpecCalc == InitCalc /\ [][NextCalc]_vars

-----------------------------------------------------------------------------
(* coordinator.py: the script pipeline on its own: any script configuration of an
   alarm, any device defaults, any outcome of the script calls *)

NoScript == ""           \* None, for an optional script entity id
NoOption == 0 - 1        \* a key that entry.options does not hold
Always == 99             \* the script fails however often it is called
MaxRetryCfg == 2         \* script_retry_count is drawn from 0..MaxRetryCfg
MaxFallbackDepth == 3    \* nested fallback runs that are followed

\* the script fields of AlarmData
ScriptData(udd, own, fb, to, rc) ==
    [use_device_defaults |-> udd, script_alarm |-> own, script_fallback |-> fb,
     script_timeout |-> to, script_retry_count |-> rc]

ScriptAlarms ==
    {ScriptData(udd, own, fb, to, rc) :
        udd \in BOOLEAN, own \in {NoScript, "script.a"},
        fb \in {NoScript, "script.fb", "script.a"}, to \in {10}, rc \in 0..MaxRetryCfg}

\* entry.options: the device-level defaults
ScriptOptions ==
    [default_script_alarm : {NoScript, "script.d"},
     default_script_fallback : {NoScript, "script.dfb"},
     default_script_timeout : {NoOption, 45},
     default_script_retry_count : {NoOption, 1}]

ScriptIds == {"script.a", "script.fb", "script.d", "script.dfb"}

\* what the script calls do: the first fail[s] calls of the script s raise or time out
ScriptOutcomes == [ScriptIds -> {0, 1, Always}]

_get_effective_script_mut_own_first(alarm_data, options, script_attr) ==
    IF ~alarm_data.use_device_defaults \/ alarm_data[script_attr] # NoScript
    THEN alarm_data[script_attr]
    ELSE options["default_" \o script_attr]

_get_effective_script(alarm_data, options, script_attr) ==
    IF ~alarm_data.use_device_defaults
    THEN alarm_data[script_attr]
    ELSE options["default_" \o script_attr]

_get_effective_script_timeout(alarm_data, options) ==
    IF ~alarm_data.use_device_defaults THEN alarm_data.script_timeout
    ELSE IF options.default_script_timeout = NoOption THEN 30
    ELSE options.default_script_timeout

_get_effective_script_retry_count(alarm_data, options) ==
    IF ~alarm_data.use_device_defaults THEN alarm_data.script_retry_count
    ELSE IF options.default_script_retry_count = NoOption THEN 3
    ELSE options.default_script_retry_count

\* what a run of the pipeline did, in order: calls of a script (n the attempt),
\* sleeps (n the seconds), script_failed events (n the attempts reported)
Did(kind, script, type, n) == [kind |-> kind, script |-> script, type |-> type, n |-> n]

\* the calls of the script among what was done
Calls(trace, script) ==
    Cardinality({i \in 1..Len(trace) : trace[i].kind = "call" /\ trace[i].script = script})

\* _async_execute_script from the attempt `attempt` on; depth bounds the nested
\* fallback runs, cut tells that the bound was reached
RECURSIVE _async_execute_script(_, _, _, _, _, _, _, _)
_async_execute_script(alarm_data, options, script_entity_id, script_type, fail, attempt, trace, depth) ==
    IF script_entity_id = NoScript THEN [ret |-> TRUE, trace |-> trace, cut |-> FALSE]
    ELSE
    With(_get_effective_script_retry_count(alarm_data, options), LAMBDA max_retries :
    IF attempt < max_retries
    THEN With(Append(trace, Did("call", script_entity_id, script_type, attempt)), LAMBDA tr :
         IF Calls(trace, script_entity_id) >= fail[script_entity_id]
         THEN [ret |-> TRUE, trace |-> tr, cut |-> FALSE]
         ELSE _async_execute_script(
                  alarm_data, options, script_entity_id, script_type, fail, attempt + 1,
                  IF attempt < max_retries - 1
                  THEN Append(tr, Did("sleep", script_entity_id, script_type, 2 ^ attempt))
                  ELSE tr,
                  depth))
    ELSE With(Append(trace, Did("script_failed", script_entity_id, script_type, max_retries)),
              LAMBDA tr :
         IF /\ alarm_data.script_fallback # NoScript
            /\ script_entity_id # alarm_data.script_fallback
         THEN IF depth = 0 THEN [ret |-> FALSE, trace |-> tr, cut |-> TRUE]
              ELSE _async_execute_script(
                       alarm_data, options,
                       _get_effective_script(alarm_data, options, "script_fallback"),
                       "fallback", fail, 0, tr, depth - 1)
         ELSE [ret |-> FALSE, trace |-> tr, cut |-> FALSE]))

\* an alarm, the device defaults and the scripts' behaviour, before the run
NoRun(alarm_data, options, fail) ==
    [op |-> "none", alarm_data |-> alarm_data, options |-> options, fail |-> fail,
     script |-> NoScript, timeout |-> 0, max_retries |-> 0, ret |-> FALSE,
     trace |-> << >>, cut |-> FALSE]

InitScript ==
    /\ now = T0
    /\ running = FALSE
    /\ alarms = EmptyDict
    /\ storeAlarms = EmptyDict
    /\ storeRuntime = EmptyDict
    /\ scheduled = EmptyDict
    /\ preAlarmCb = EmptyDict
    /\ snoozeCb = EmptyDict
    /\ autoDismissCb = EmptyDict
    /\ lastTriggerTimes = EmptyDict
    /\ tasks = {}
    /\ events = << >>
    /\ last = Report("init", "", TRUE, TRUE)
    /\ ncmd = 0
    /\ nrestart = 0
    /\ mainRuns = EmptyDict
    /\ missedAt = EmptyDict
    /\ oneTimeDone = {}
    /\ skipDue = EmptyDict
    /\ orphans = {}
    /\ calc \in {NoRun(alarm_data, options, fail) :
                    alarm_data \in ScriptAlarms, options \in ScriptOptions,
                    fail \in ScriptOutcomes}

\* the alarm script of an alarm is run, as _async_trigger_alarm runs it
ExecuteScript(alarm_data, options, fail) ==
    /\ calc.op = "none"
    /\ With(_get_effective_script(alarm_data, options, "script_alarm"), LAMBDA script :
       With(_async_execute_script(alarm_data, options, script, "alarm", fail, 0, << >>,
                                  MaxFallbackDepth), LAMBDA r :
           calc' = [op |-> "execute", alarm_data |-> alarm_data, options |-> options,
                    fail |-> fail, script |-> script,
                    timeout |-> _get_effective_script_timeout(alarm_data, options),
                    max_retries |-> _get_effective_script_retry_count(alarm_data, options),
                    ret |-> r.ret, trace |-> r.trace, cut |-> r.cut]))
    /\ UNCHANGED <<now, running, alarms, storeAlarms, storeRuntime, scheduled, preAlarmCb,
                   snoozeCb, autoDismissCb, lastTriggerTimes, tasks, events, last, ncmd,
                   nrestart, mainRuns, missedAt, oneTimeDone, skipDue, orphans>>

NextScript == ExecuteScript(calc.alarm_data, calc.options, calc.fail)

SpecScript == InitScript /\ [][NextScript]_vars

-----------------------------------------------------------------------------
(* The coordinator left alone after a restart: commands are issued in the first
   run only; the host's event loop runs every timer that is due and resumes every
   handler whose await returns *)

LiveAlarms ==
    {AlarmData(TRUE, {"monday", "tuesday"}, FALSE, MaxSnoozeCfg, 0, FALSE),
     AlarmData(TRUE, {"monday", "tuesday"}, FALSE, MaxSnoozeCfg, 0, TRUE)}

FirstRun == nrestart = 1

NextLive ==
    \/ Advance
    \/ Start
    \/ Stop
    \/ Crash
    \/ \E id \in AlarmIds : FireMain(id)
    \/ \E id \in AlarmIds : FireSnoozeEnd(id)
    \/ \E id \in AlarmIds : FireAutoDismiss(id)
    \/ \E id \in AlarmIds, alarm_data \in LiveAlarms : FirstRun /\ AddAlarm(id, alarm_data)
    \/ \E id \in AlarmIds : FirstRun /\ TestAlarm(id)
    \/ \E id \in AlarmIds : FirstRun /\ Snooze(id)
    \/ \E k \in tasks : Resume(k)

Fairness ==
    /\ WF_vars(Advance)
    /\ \A id \in AlarmIds :
          /\ WF_vars(FireMain(id))
          /\ WF_vars(FireSnoozeEnd(id))
          /\ WF_vars(FireAutoDismiss(id))
    /\ WF_vars(\E k \in tasks : Resume(k))

SpecLive == Init /\ [][NextLive]_vars /\ Fairness

-----------------------------------------------------------------------------
(* The claims *)

\* the allowed-transition table as the specification states it
C1_Allowed ==
    {<<DISABLED, ARMED>>,
     <<ARMED, DISABLED>>, <<ARMED, PRE_ALARM>>, <<ARMED, RINGING>>, <<ARMED, MISSED>>,
     <<PRE_ALARM, RINGING>>, <<PRE_ALARM, DISABLED>>, <<PRE_ALARM, MISSED>>,
     <<RINGING, SNOOZED>>, <<RINGING, DISMISSED>>, <<RINGING, AUTO_DISMISSED>>,
     <<RINGING, DISABLED>>,
     <<SNOOZED, RINGING>>, <<SNOOZED, DISMISSED>>, <<SNOOZED, DISABLED>>,
     <<DISMISSED, ARMED>>, <<DISMISSED, DISABLED>>,
     <<AUTO_DISMISSED, ARMED>>, <<AUTO_DISMISSED, DISABLED>>,
     <<MISSED, ARMED>>, <<MISSED, DISABLED>>}

\* C1: transition_to without force succeeds exactly when (from, to) is in the
\* allowed-transition table; a rejected transition returns false and leaves the
\* state, snooze_count and every other runtime field unchanged.
C1_TransitionTable ==
    (calc.op = "transition_to" /\ ~calc.force) =>
        /\ calc.ok <=> (<<calc.from, calc.to>> \in C1_Allowed)
        /\ ~calc.ok => \A id \in AlarmIds : alarms[id].rt = calc.before

\* C1's case: Armed -> Snoozed asked without force, and rejected
C1_Witness ==
    /\ calc.op = "transition_to" /\ ~calc.force
    /\ calc.from = ARMED /\ calc.to = SNOOZED /\ ~calc.ok

\* the candidates of C6: today + d days at HH:MM, d in 0..7, on a configured
\* weekday and strictly later than t
C6_Candidates(t, time, days) ==
    {x \in {AtTime(DateOf(t) + d, time) : d \in 0..7} :
        DayName(DateOf(x)) \in days /\ x > t}

\* C6: the computed next trigger is the earliest candidate (today + d days at
\* HH:MM, d in 0..7) on a configured weekday that is strictly later than now; it
\* is none only when days is empty.
C6_NextTrigger ==
    calc.op = "calculate" =>
        LET cands == C6_Candidates(calc.t, calc.time, calc.days) IN
        IF calc.days = {} THEN calc.result = NoTime
        ELSE /\ calc.result \in cands
             /\ \A x \in cands : calc.result <= x
             /\ calc.result > calc.t
             /\ DayName(DateOf(calc.result)) \in calc.days

\* C6's case: asked on Monday at 07:00:00 sharp for a Monday 07:00 alarm, the
\* answer is next Monday (d = 7)
C6_Witness ==
    /\ calc.op = "calculate"
    /\ calc.t = 7 * 3600 /\ calc.time = [h |-> 7, m |-> 0] /\ calc.days = {"monday"}
    /\ calc.result = 7 * 86400 + 7 * 3600

\* no handler of the alarm is suspended
Quiescent(id) == \A k \in tasks : k.id # id

\* C2: in every reachable state every alarm has snooze_count <= max_snooze_count
\* of its current configuration.
C2_SnoozeCap ==
    \A id \in DOMAIN alarms :
        alarms[id].rt.snooze_count <= alarms[id].data.max_snooze_count

\* the step is the snooze command for the alarm (not the rest of it, resumed)
C3_SnoozeStep(id) == ncmd' = ncmd + 1 /\ last'.op = "snooze" /\ last'.id = id

\* C3: snooze is accepted only when the alarm is Ringing and snooze_count <
\* max_snooze_count; when accepted the alarm becomes Snoozed and snooze_count
\* grows by exactly 1; when refused the command returns false and the state,
\* snooze_count and all timers of the alarm are unchanged.
C3_Snooze ==
    [][\A id \in AlarmIds : C3_SnoozeStep(id) =>
          LET accepted == ~last'.done \/ last'.ret
              allowed == /\ id \in DOMAIN alarms
                         /\ alarms[id].rt.state = RINGING
                         /\ alarms[id].rt.snooze_count < alarms[id].data.max_snooze_count
          IN  /\ accepted <=> allowed
              /\ accepted =>
                    /\ alarms'[id].rt.state = SNOOZED
                    /\ alarms'[id].rt.snooze_count = alarms[id].rt.snooze_count + 1
              /\ ~accepted =>
                    /\ ~last'.ret
                    /\ UNCHANGED <<alarms, scheduled, preAlarmCb, snoozeCb, autoDismissCb>>
      ]_vars

\* C3's case: a snooze has just been refused on a ringing alarm that is at its cap
\* after an accepted snooze
C3_Witness ==
    /\ last.op = "snooze" /\ last.done /\ ~last.ret
    /\ \E id \in DOMAIN alarms :
        /\ last.id = id
        /\ alarms[id].rt.state = RINGING
        /\ alarms[id].rt.snooze_count >= 1
        /\ alarms[id].rt.snooze_count = alarms[id].data.max_snooze_count

\* C4: whenever no command or timer handler is in progress for an alarm, its
\* state is Disabled if and only if its enabled flag is false.
C4_DisabledIffNotEnabled ==
    \A id \in DOMAIN alarms :
        Quiescent(id) => (alarms[id].rt.state = DISABLED <=> ~alarms[id].data.enabled)

\* C5: an alarm whose enabled flag is false never transitions to Ringing through
\* a Main or SnoozeEnd timer firing or through startup recovery.
C5_DisabledNeverRings ==
    \A id \in DOMAIN alarms :
        (/\ last.op \in {"main_timer", "snooze_end", "start"}
         /\ \E i \in 1..Len(events) : events[i].type = "triggered" /\ events[i].id = id)
            => alarms[id].data.enabled

\* C7: after skip_next is set on an armed alarm, the flag is cleared at the moment
\* of the occurrence it suppresses (so that the following occurrence rings).
C7_SkipConsumed ==
    \A id \in DOMAIN alarms :
        (/\ running /\ Quiescent(id)
         /\ id \in DOMAIN skipDue /\ skipDue[id] # NoTime
         /\ now > skipDue[id] + JITTER)
            => ~alarms[id].data.skip_next

\* the state _async_setup_alarm gives the alarm
C8_StartupState(id) ==
    IF id \in DOMAIN storeRuntime THEN storeRuntime[id].state
    ELSE IF alarms[id].data.enabled THEN ARMED ELSE DISABLED

\* C8: on startup, for an enabled Armed alarm whose most recent occurrence lies in
\* the past (it passed while the coordinator was down) by no more than the grace
\* period, a Missed event carrying missed_by_seconds is emitted and the alarm is
\* driven to Ringing with trigger kind MissedRecovery.
C8_MissedRecovery ==
    \A id \in DOMAIN alarms :
        (/\ last.op = "start"
         /\ alarms[id].data.enabled
         /\ C8_StartupState(id) = ARMED
         /\ id \in DOMAIN missedAt
         /\ now - missedAt[id] <= DEFAULT_MISSED_ALARM_GRACE_PERIOD * 60)
            => /\ \E i \in 1..Len(events) :
                    /\ events[i].type = "missed" /\ events[i].id = id
                    /\ events[i].missed_by_seconds = now - missedAt[id]
               /\ alarms[id].rt.state = RINGING
               /\ alarms[id].rt.current_trigger_type = TRIGGER_MISSED_RECOVERY

\* C9: if the Main-timer handler runs twice for the same alarm within 60 seconds,
\* exactly one of the two runs causes a transition to Ringing.
C9_ExactlyOne ==
    \A id \in DOMAIN mainRuns :
        (Len(mainRuns[id]) = 2 /\ mainRuns[id][2].at - mainRuns[id][1].at < 60)
            => (mainRuns[id][1].rang # mainRuns[id][2].rang)

\* C9, in part: of two runs of the Main-timer handler within 60 seconds, at least
\* one causes a transition to Ringing.
C9_AtLeastOne ==
    \A id \in DOMAIN mainRuns :
        (Len(mainRuns[id]) = 2 /\ mainRuns[id][2].at - mainRuns[id][1].at < 60)
            => (mainRuns[id][1].rang \/ mainRuns[id][2].rang)

\* C10: after dismiss completes on a non-one-time alarm the alarm is Armed with
\* snooze_count 0, no SnoozeEnd or AutoDismiss timer is pending and, for an
\* enabled alarm that is not skipped, a Main timer is armed.
C10_Dismiss ==
    \A id \in DOMAIN alarms :
        (/\ last.op = "dismiss" /\ last.id = id /\ last.done /\ last.ret
         /\ ~alarms[id].data.one_time /\ Quiescent(id))
            => /\ alarms[id].rt.state = ARMED
               /\ alarms[id].rt.snooze_count = 0
               /\ ~Pending(snoozeCb, id) /\ ~Pending(autoDismissCb, id)
               /\ (alarms[id].data.enabled /\ ~alarms[id].data.skip_next)
                      => Pending(scheduled, id)

\* C11, first part: when a dismiss or an auto-dismiss has completed on a one-time
\* alarm, enabled is false, the state is Disabled and the store holds enabled =
\* false.
C11_DisabledAfterDismiss ==
    \A id \in oneTimeDone \cap DOMAIN alarms :
        (/\ last.op \in {"dismiss", "auto_dismiss"} /\ last.id = id /\ last.done
         /\ last.op = "dismiss" => last.ret)
            => /\ ~alarms[id].data.enabled
               /\ alarms[id].rt.state = DISABLED
               /\ id \in DOMAIN storeAlarms => ~storeAlarms[id].enabled

\* C11, second part: a one-time alarm that was dismissed or auto-dismissed never
\* transitions to Ringing again unless it is re-enabled.
C11_NeverRingsAgain ==
    \A id \in oneTimeDone :
        ~\E i \in 1..Len(events) : events[i].type = "triggered" /\ events[i].id = id

\* C12: after add_alarm and then remove_alarm of the id have both completed, the
\* alarm is absent from the alarm map, the store holds neither its configuration
\* nor its runtime state, and no Main, PreAlarm, SnoozeEnd or AutoDismiss timer is
\* registered for the id.
C12_NoTraceAfterRemove ==
    \A id \in AlarmIds :
        (last.op = "remove_alarm" /\ last.id = id /\ last.done /\ last.ret)
            => /\ id \notin DOMAIN alarms
               /\ id \notin DOMAIN storeAlarms
               /\ id \notin DOMAIN storeRuntime
               /\ ~Pending(scheduled, id) /\ ~Pending(preAlarmCb, id)
               /\ ~Pending(snoozeCb, id) /\ ~Pending(autoDismissCb, id)

\* C12, the timers alone: when remove_alarm of an id completes with success, no
\* Main, PreAlarm, SnoozeEnd or AutoDismiss timer is registered for the id.
C12_NoTimerAfterRemove ==
    \A id \in AlarmIds :
        (last.op = "remove_alarm" /\ last.id = id /\ last.done /\ last.ret)
            => /\ ~Pending(scheduled, id) /\ ~Pending(preAlarmCb, id)
               /\ ~Pending(snoozeCb, id) /\ ~Pending(autoDismissCb, id)

\* the step is the run of the Main timer's handler for the alarm (not the rest of
\* it, resumed after the alarm script)
C13_MainStep(id) ==
    /\ last'.op = "main_timer" /\ last'.id = id
    /\ \A k \in tasks : ~(k.op = "main_timer" /\ k.id = id)

\* the number of Triggered events for the alarm among the events evs
C13_Triggered(evs, id) ==
    Cardinality({i \in 1..Len(evs) : evs[i].type = "triggered" /\ evs[i].id = id})

\* C13, first part: when the Main timer fires for an alarm in Armed (or PreAlarm)
\* the alarm becomes Ringing, exactly one Triggered event is emitted, and (once the
\* handler has completed) an AutoDismiss timer is armed at now + auto_dismiss_timeout.
C13_MainTimerRings ==
    [][\A id \in AlarmIds :
          (/\ C13_MainStep(id)
           /\ id \in DOMAIN alarms
           /\ alarms[id].rt.state \in {ARMED, PRE_ALARM})
              => /\ alarms'[id].rt.state = RINGING
                 /\ C13_Triggered(events', id) = 1
                 /\ last'.done =>
                       /\ Pending(autoDismissCb', id)
                       /\ autoDismissCb'[id].at = now' + alarms[id].data.auto_dismiss_timeout * 60
      ]_vars

\* the step is the run of the SnoozeEnd timer's handler for the alarm; the rest
\* of it, resumed after the alarm script, is C14_SnoozeEndResumed
C14_SnoozeEndStep(id) ==
    /\ last'.op = "snooze_end" /\ last'.id = id
    /\ \A k \in tasks : ~(k.op = "snooze_end" /\ k.id = id)

C14_SnoozeEndResumed(id) ==
    /\ last'.op = "snooze_end" /\ last'.id = id
    /\ \E k \in tasks : k.op = "snooze_end" /\ k.id = id

\* the alarm has an AutoDismiss timer, armed in this step for one timeout from now
C14_FreshAutoDismiss(id) ==
    /\ Pending(autoDismissCb', id)
    /\ \E k \in NewAlarms : autoDismissCb'[id].at = now + k.auto_dismiss_timeout * 60

\* C14: when snooze is accepted a SnoozeEnd timer is armed at now + the snooze
\* duration and the AutoDismiss timer is cancelled; when the SnoozeEnd timer fires
\* while the alarm is Snoozed the alarm becomes Ringing again with a freshly armed
\* AutoDismiss timer; a SnoozeEnd timer firing for an alarm that is no longer
\* Snoozed has no effect.
C14_SnoozeEnd ==
    [][\A id \in AlarmIds :
          /\ (C3_SnoozeStep(id) /\ (~last'.done \/ last'.ret)) =>
                /\ Pending(snoozeCb', id)
                /\ snoozeCb'[id].at = now + alarms[id].data.snooze_duration * 60
                /\ id \notin DOMAIN autoDismissCb'
          /\ (C14_SnoozeEndStep(id) /\ id \in DOMAIN alarms /\ alarms[id].rt.state = SNOOZED) =>
                /\ alarms'[id].rt.state = RINGING
                /\ last'.done => C14_FreshAutoDismiss(id)
          /\ (C14_SnoozeEndResumed(id) /\ last'.done) => C14_FreshAutoDismiss(id)
          /\ (C14_SnoozeEndStep(id) /\ ~(id \in DOMAIN alarms /\ alarms[id].rt.state = SNOOZED)) =>
                /\ events' = << >>
                /\ UNCHANGED <<alarms, storeAlarms, storeRuntime, scheduled, preAlarmCb,
                               autoDismissCb, tasks>>
                /\ DOMAIN snoozeCb' = DOMAIN snoozeCb
                /\ \A x \in DOMAIN snoozeCb : snoozeCb'[x].at = snoozeCb[x].at
      ]_vars

\* C14's case: the SnoozeEnd timer has fired on a snoozed alarm, which rings again
C14_Witness ==
    /\ last.op = "snooze_end" /\ last.done
    /\ \E id \in DOMAIN alarms :
        /\ last.id = id
        /\ alarms[id].rt.state = RINGING
        /\ alarms[id].rt.snooze_count >= 1
        /\ Pending(autoDismissCb, id)
        /\ ~Pending(snoozeCb, id)

\* C14's last case: a SnoozeEnd timer has fired for an alarm that is not Snoozed
C14_WitnessStale ==
    /\ last.op = "snooze_end" /\ last.done
    /\ \E id \in DOMAIN alarms :
        /\ last.id = id
        /\ alarms[id].rt.state \notin {RINGING, SNOOZED}

\* the run was of a configured script that fails however often it is called
C15_AllFail == calc.op = "execute" /\ calc.script # NoScript /\ calc.fail[calc.script] = Always

\* the sleeps of the run while the script was tried, in order
C15_Sleeps(trace, script) ==
    LET idx == {i \in 1..Len(trace) : trace[i].kind = "sleep" /\ trace[i].script = script}
    IN  [k \in 1..Cardinality(idx) |->
            trace[CHOOSE i \in idx : Cardinality({j \in idx : j <= i}) = k].n]

\* C15: a configured script that fails on every attempt is invoked exactly
\* retry_count + 1 times (attempts 0..retry_count), with a sleep of 2^i seconds after
\* the failed attempt i only when i < retry_count; the pipeline returns success as
\* soon as one attempt succeeds and makes no further attempt.
C15_Attempts ==
    /\ C15_AllFail =>
          /\ Calls(calc.trace, calc.script) = calc.max_retries + 1
          /\ C15_Sleeps(calc.trace, calc.script) = [i \in 1..calc.max_retries |-> 2 ^ (i - 1)]
    /\ (calc.op = "execute" /\ calc.script # NoScript
        /\ calc.fail[calc.script] < Always /\ calc.fail[calc.script] <= calc.max_retries) =>
          /\ calc.ret
          /\ Calls(calc.trace, calc.script) = calc.fail[calc.script] + 1
          /\ calc.trace[Len(calc.trace)].kind = "call"

\* the script_failed events of the run for the script
C16_Failed(trace, script) ==
    Cardinality({i \in 1..Len(trace) :
                    trace[i].kind = "script_failed" /\ trace[i].script = script})

\* the alarm's fallback routine
C16_FallbackOf == _get_effective_script(calc.alarm_data, calc.options, "script_fallback")

\* C16: when all attempts of a non-fallback script fail, exactly one ScriptFailed
\* event is emitted for that slot, the fallback routine (whenever one exists for
\* the alarm) is executed once, and the pipeline returns failure whatever the
\* outcome of the fallback.
C16_Fallback ==
    (C15_AllFail /\ calc.max_retries >= 1 /\ calc.script # C16_FallbackOf) =>
        /\ C16_Failed(calc.trace, calc.script) = 1
        /\ C16_FallbackOf # NoScript =>
              /\ Calls(calc.trace, C16_FallbackOf) >= 1
              /\ C16_Failed(calc.trace, C16_FallbackOf) <= 1
        /\ ~calc.ret

\* C16, the result alone: the pipeline returns failure when all attempts of the
\* script have failed.
C16_ReturnsFailure ==
    (/\ C15_AllFail /\ calc.max_retries >= 1 /\ calc.script # C16_FallbackOf
     /\ ~calc.alarm_data.use_device_defaults) => ~calc.ret

\* C16, the fallback alone: when all attempts of the script have failed and the
\* device defaults, which the alarm uses, hold a fallback routine, it is executed.
C16_DefaultFallbackRuns ==
    (/\ C15_AllFail /\ calc.max_retries >= 1 /\ calc.script # C16_FallbackOf
     /\ calc.alarm_data.use_device_defaults /\ calc.alarm_data.script_fallback = NoScript
     /\ C16_FallbackOf # NoScript) => Calls(calc.trace, C16_FallbackOf) >= 1

C18_TestStep(id) == ncmd' = ncmd + 1 /\ last'.op = "test_alarm" /\ last'.id = id

\* C18: whenever test_alarm returns success the alarm is Ringing with trigger kind
\* ManualTest as a result of the call; when the alarm is already Ringing or Snoozed
\* the command returns failure and changes nothing.
C18_TestAlarm ==
    [][\A id \in AlarmIds : C18_TestStep(id) =>
          /\ (~last'.done \/ last'.ret) =>
                /\ id \in DOMAIN alarms'
                /\ alarms'[id].rt.state = RINGING
                /\ alarms'[id].rt.current_trigger_type = TRIGGER_MANUAL_TEST
          /\ (id \in DOMAIN alarms /\ alarms[id].rt.state \in {RINGING, SNOOZED}) =>
                /\ last'.done /\ ~last'.ret
                /\ events' = << >>
                /\ UNCHANGED <<alarms, storeAlarms, storeRuntime, scheduled, preAlarmCb,
                               snoozeCb, autoDismissCb, tasks>>
      ]_vars

\* the step is async_start, up to its end or its first await
C19_StartStep == ~running /\ running' /\ last'.op = "start"

\* C19: on startup a persisted runtime state other than Armed, Disabled or Snoozed
\* is not restored as such: the alarm starts in Armed if it is enabled and in
\* Disabled otherwise (from where the missed-alarm check of the same start may
\* make it ring).
C19_Sanitized ==
    [][C19_StartStep =>
          \A id \in (DOMAIN storeAlarms) \cap (DOMAIN storeRuntime) \cap (DOMAIN alarms') :
              storeRuntime[id].state \notin {ARMED, DISABLED, SNOOZED} =>
                  \/ alarms'[id].rt.state = IF storeAlarms[id].enabled THEN ARMED ELSE DISABLED
                  \/ \E i \in 1..Len(events') :
                        events'[i].type = "triggered" /\ events'[i].id = id
      ]_vars

\* the alarms that the start has set up from a persisted Snoozed state with a
\* snooze end time
C20_Restored ==
    {id \in (DOMAIN storeAlarms) \cap (DOMAIN storeRuntime) \cap (DOMAIN alarms') :
        storeRuntime[id].state = SNOOZED /\ storeRuntime[id].snooze_end_time # NoTime}

\* C20, at the start: an alarm restored in Snoozed with a snooze end time in the
\* future gets a SnoozeEnd timer armed at that time; one whose snooze end time is
\* not in the future is driven to Ringing at once.
C20_RestoredSnooze ==
    [][C19_StartStep =>
          \A id \in C20_Restored :
              IF storeRuntime[id].snooze_end_time > now
              THEN /\ alarms'[id].rt.state = SNOOZED
                   /\ Pending(snoozeCb', id)
                   /\ snoozeCb'[id].at = storeRuntime[id].snooze_end_time
              ELSE /\ alarms'[id].rt.state = RINGING
                   /\ \E i \in 1..Len(events') :
                         events'[i].type = "triggered" /\ events'[i].id = id
      ]_vars

\* every persisted Snoozed state holds a snooze end time
C20_SnoozedHasEnd ==
    \A id \in DOMAIN storeRuntime :
        storeRuntime[id].state = SNOOZED => storeRuntime[id].snooze_end_time # NoTime

\* the alarm was restored in Snoozed by the start that has just run, with a
\* snooze end time that the clock can reach
C20_RestoredAtStart(id) ==
    /\ running /\ last.op = "start"
    /\ id \in (DOMAIN alarms) \cap (DOMAIN storeRuntime)
    /\ storeRuntime[id].state = SNOOZED
    /\ storeRuntime[id].snooze_end_time # NoTime
    /\ storeRuntime[id].snooze_end_time <= Horizon

\* C20, from then on: the restored alarm eventually rings again without a user
\* command, as long as the coordinator is not stopped.
C20_RingsAgain ==
    \A id \in AlarmIds :
        C20_RestoredAtStart(id) ~>
            (~running \/ (id \in DOMAIN alarms /\ alarms[id].rt.state = RINGING))

\* C20: on startup an alarm restored in Snoozed with a snooze end time in the
\* future gets a SnoozeEnd timer armed at that time, one whose snooze end time is
\* not in the future is driven to Ringing immediately, and in both cases the alarm
\* eventually rings again without a user command.
C20_Startup == C20_RestoredSnooze /\ C20_RingsAgain

\* C20's case: after a restart that restored the alarm in Snoozed with its snooze
\* end still to come, the SnoozeEnd timer has fired and the alarm rings again
C20_Witness ==
    /\ running /\ nrestart >= 3 /\ last.op = "snooze_end" /\ last.done
    /\ \E id \in (DOMAIN alarms) \cap (DOMAIN storeRuntime) :
        /\ last.id = id
        /\ storeRuntime[id].state = SNOOZED
        /\ storeRuntime[id].snooze_end_time = now
        /\ alarms[id].rt.state = RINGING

\* C20's other case: a restart has found the snooze end passed and made the alarm ring
C20_WitnessExpired ==
    /\ running /\ nrestart >= 3 /\ last.op = "start"
    /\ \E id \in (DOMAIN alarms) \cap (DOMAIN storeRuntime) :
        /\ storeRuntime[id].state = SNOOZED
        /\ storeRuntime[id].snooze_end_time # NoTime
        /\ storeRuntime[id].snooze_end_time <= now
        /\ alarms[id].rt.state = RINGING

\* C21: after every transition into Snoozed, Ringing, Dismissed, AutoDismissed or
\* Missed the runtime state persisted in the store for the alarm equals its
\* in-memory runtime state, so that a crash at a later quiescent point restores
\* the alarm in the last such state it had reached.
C21_PersistedOnTransition ==
    \A id \in DOMAIN alarms :
        (/\ running /\ Quiescent(id)
         /\ alarms[id].rt.state \in {SNOOZED, RINGING, DISMISSED, AUTO_DISMISSED, MISSED})
            => /\ id \in DOMAIN storeRuntime
               /\ storeRuntime[id] = to_restore_data(alarms[id])

\* the step ends a pass of the health check: the pass that ran as time passed, or
\* the rest of one that was suspended at a script
C22_PassEnds ==
    /\ last'.done
    /\ \/ /\ last'.op = "advance" /\ running
          /\ now' - now >= HEALTH_CHECK_INTERVAL
          /\ \A k \in tasks : k.op \notin {"start", "health_check"}
       \/ last'.op = "health_check"

\* C22: after each health-check pass completes, every enabled alarm that is Armed
\* has a pending Main timer (a missing one is rescheduled by the pass).
C22_ArmedScheduled ==
    [][C22_PassEnds =>
          \A id \in DOMAIN alarms' :
              (alarms'[id].data.enabled /\ alarms'[id].rt.state = ARMED)
                  => Pending(scheduled', id)
      ]_vars

\* C22 for the alarms that are not told to skip their next occurrence and are not
\* being removed
C22_ArmedScheduledNoSkip ==
    [][C22_PassEnds =>
          \A id \in DOMAIN alarms' :
              (/\ alarms'[id].data.enabled /\ alarms'[id].rt.state = ARMED
               /\ ~alarms'[id].data.skip_next
               /\ \A k \in tasks' : k.id # id)
                  => Pending(scheduled', id)
      ]_vars

\* C23: once async_stop has completed no Main, PreAlarm, SnoozeEnd or AutoDismiss
\* timer is pending and the runtime state of every alarm has been persisted (the
\* coordinator that is not running and still holds alarms is the stopped one: a
\* crash leaves an empty one).
C23_StoppedIsQuiet ==
    ~running =>
        /\ \A id \in AlarmIds :
               /\ ~Pending(scheduled, id) /\ ~Pending(preAlarmCb, id)
               /\ ~Pending(snoozeCb, id) /\ ~Pending(autoDismissCb, id)
        /\ \A id \in DOMAIN alarms :
               /\ id \in DOMAIN storeRuntime
               /\ storeRuntime[id] = to_restore_data(alarms[id])

-----------------------------------------------------------------------------
(* The configuration commands with inputs that are to be refused, and with store
   writes that fail *)

\* "24:00" and "07:60": two numbers, one of them out of range
BadTimes == {[h |-> 24, m |-> 0], [h |-> 7, m |-> 60]}
\* no day at all, and a name that is no weekday
BadDays == {{}, {"funday"}}

\* what a handler has done when the store write it awaits raises: what it did
\* before the await, the data object of the store included; the exception leaves
\* the handler, which has no except clause
store_write_raises(r) == IF r.susp = {} THEN r ELSE Done(r.c, FALSE)

\* a configuration command whose store write raises
StoreFailure(id, op) ==
    /\ Command
    /\ op \in {"set_enabled", "set_time", "set_days", "skip_next", "cancel_skip"}
    /\ \E enabled \in BOOLEAN, time \in AlarmTimes, days \in DayChoices :
          Step(op \o "_raised", id,
               store_write_raises(
                   CASE op = "set_enabled" -> async_set_enabled(Cur, id, enabled, now)
                     [] op = "set_time" -> async_set_time(Cur, id, time, now)
                     [] op = "set_days" -> async_set_days(Cur, id, days, now)
                     [] op = "skip_next" -> async_skip_next(Cur, id, now)
                     [] OTHER -> async_cancel_skip(Cur, id, now)), {})

NextCfg ==
    \/ Advance
    \/ Start
    \/ \E id \in AlarmIds : FireMain(id)
    \/ \E id \in AlarmIds : FireAutoDismiss(id)
    \/ \E id \in AlarmIds, alarm_data \in LiveAlarms : AddAlarm(id, alarm_data)
    \/ \E id \in AlarmIds, time \in AlarmTimes \cup BadTimes : SetTime(id, time)
    \/ \E id \in AlarmIds, days \in DayChoices \cup BadDays : SetDays(id, days)
    \/ \E id \in AlarmIds : Dismiss(id)
    \/ \E id \in AlarmIds, op \in {"set_enabled", "set_time", "set_days", "skip_next", "cancel_skip"} :
          StoreFailure(id, op)
    \/ \E k \in tasks : Resume(k)

SpecCfg == Init /\ [][NextCfg]_vars

\* C24: set_time with a malformed time (an hour outside 0..23 or a minute outside
\* 0..59) returns failure, fires no time_changed event and leaves the alarm (its
\* time, its state), the stored configuration and the four timers as they were.
C24_MalformedTime ==
    [][\A id \in AlarmIds, time \in BadTimes :
          SetTime(id, time) =>
              /\ last'.done /\ ~last'.ret
              /\ \A i \in 1..Len(events') : events'[i].type # "time_changed"
              /\ UNCHANGED <<alarms, storeAlarms, storeRuntime, scheduled, preAlarmCb,
                             snoozeCb, autoDismissCb>>
      ]_vars

\* a set_time has been refused for an alarm that exists and has a Main timer
C24_Witness ==
    /\ last.op = "set_time" /\ last.done /\ ~last.ret
    /\ last.id \in DOMAIN alarms /\ last.id \in DOMAIN storeAlarms
    /\ Pending(scheduled, last.id)

\* C25: set_days with an empty day set (on an alarm that is not one-time) or with a
\* name that is not a weekday is rejected and leaves the alarm (its days, its
\* state), the stored configuration and the four timers as they were.
C25_InvalidDays ==
    [][\A id \in AlarmIds, days \in BadDays :
          SetDays(id, days) =>
              /\ last'.done /\ ~last'.ret
              /\ UNCHANGED <<alarms, storeAlarms, storeRuntime, scheduled, preAlarmCb,
                             snoozeCb, autoDismissCb>>
      ]_vars

\* C26: if the store write fails during a configuration command, the command
\* reports failure and the alarm (its configuration, its state) and the four
\* timers in memory are the same as before the command.
C26_StoreFailure ==
    [][\A id \in AlarmIds, op \in {"set_enabled", "set_time", "set_days", "skip_next", "cancel_skip"} :
          StoreFailure(id, op) =>
              /\ last'.done /\ ~last'.ret
              /\ UNCHANGED <<alarms, scheduled, preAlarmCb, snoozeCb, autoDismissCb>>
      ]_vars

\* the timers of one kind that are registered for the alarm and still to fire: the
\* one of the coordinator's dict, and those a stopped coordinator has left
C28_Count(kind, d, id) ==
    (IF Pending(d, id) THEN 1 ELSE 0)
        + Cardinality({o \in orphans : o.kind = kind /\ o.id = id /\ o.at > now})

\* C28: at every instant each alarm has no more than one pending timer of each
\* kind (Main, PreAlarm, SnoozeEnd, AutoDismiss).
C28_OnePerKind ==
    \A id \in AlarmIds :
        /\ C28_Count("main", scheduled, id) <= 1
        /\ C28_Count("pre_alarm", preAlarmCb, id) <= 1
        /\ C28_Count("snooze_end", snoozeCb, id) <= 1
        /\ C28_Count("auto_dismiss", autoDismissCb, id) <= 1

\* the step is a command for the alarm id (not the rest of one, resumed)
C27_CommandStep(id) ==
    /\ ncmd' = ncmd + 1 /\ last'.id = id
    /\ last'.op \in {"remove_alarm", "set_enabled", "set_time", "set_days", "snooze",
                     "dismiss", "skip_next", "cancel_skip", "test_alarm"}

\* C27: every command issued for an id that is not in the alarm map returns failure
\* and changes no alarm, no timer and nothing in the store.
C27_UnknownId ==
    [][\A id \in AlarmIds :
          (id \notin DOMAIN alarms /\ C27_CommandStep(id)) =>
              /\ last'.done /\ ~last'.ret
              /\ UNCHANGED <<alarms, storeAlarms, storeRuntime, scheduled, preAlarmCb,
                             snoozeCb, autoDismissCb, lastTriggerTimes, tasks>>
              /\ events' = << >>
      ]_vars

\* a command has been refused for an id that the store knows and the map does not
\* (its add_alarm is at its store write)
C27_Witness ==
    /\ last.op \in {"remove_alarm", "dismiss", "set_enabled"} /\ last.done /\ ~last.ret
    /\ last.id \notin DOMAIN alarms /\ last.id \in DOMAIN storeAlarms

-----------------------------------------------------------------------------
(* Two commands for one alarm, the second issued while the first is suspended
   at an await: calc keeps the two commands and the state before the first *)

PairCmds == {"dismiss", "snooze", "set_enabled_off", "remove_alarm", "test_alarm"}

\* the command, up to its first await
pair_command(c, cmd, id, t) ==
    CASE cmd = "dismiss" -> async_dismiss(c, id, t)
      [] cmd = "snooze" -> async_snooze(c, id, t)
      [] cmd = "set_enabled_off" -> async_set_enabled(c, id, FALSE, t)
      [] cmd = "test_alarm" -> async_test_alarm(c, id, t)
      [] OTHER -> async_remove_alarm(c, id)

\* the first command of the pair, or the second while the first is suspended
PairIssue(id, cmd) ==
    /\ running /\ id \in DOMAIN alarms
    /\ \/ /\ calc.phase = 0 /\ tasks = {}
          /\ calc' = [phase |-> 1, id |-> id, a |-> cmd, b |-> "", before |-> Cur]
       \/ /\ calc.phase = 1 /\ tasks # {} /\ cmd # calc.a /\ id = calc.id
          /\ calc' = [calc EXCEPT !.phase = 2, !.b = cmd]
    /\ LET r == pair_command(Cur, cmd, id, now)
       IN  Commit(r.c, tasks \cup r.susp, Report(cmd, id, r.susp = {}, r.ret))
    /\ UNCHANGED <<now, running, ncmd, nrestart>>

\* the await of a command of the pair returns
PairResume(k) ==
    /\ calc.phase \in {1, 2} /\ k \in tasks
    /\ LET r == Continue(k)
       IN  Commit(r.c, (tasks \ {k}) \cup r.susp, Report(k.op, k.id, r.susp = {}, r.ret))
    /\ UNCHANGED <<now, running, ncmd, nrestart, calc>>

NextPair ==
    \/ calc.phase = 0 /\ Advance
    \/ calc.phase = 0 /\ Start
    \/ \E id \in AlarmIds : calc.phase = 0 /\ FireMain(id)
    \/ \E id \in AlarmIds, alarm_data \in LiveAlarms : calc.phase = 0 /\ AddAlarm(id, alarm_data)
    \/ \E id \in AlarmIds : calc.phase = 0 /\ TestAlarm(id)
    \/ \E k \in tasks : calc.phase = 0 /\ Resume(k)
    \/ \E id \in AlarmIds, cmd \in PairCmds : PairIssue(id, cmd)
    \/ \E k \in tasks : PairResume(k)

SpecPair == Init /\ [][NextPair]_vars

\* the coordinator's state when the handler whose segment gave r has run to its
\* end with nothing else in between
RECURSIVE C29_RunToEnd(_, _)
C29_RunToEnd(r, t) ==
    IF r.susp = {} THEN r.c
    ELSE C29_RunToEnd(continue_in(r.c, CHOOSE k \in r.susp : TRUE, t), t)

\* the command x, then the command y, one after the other
C29_Seq(c, x, y, id, t) ==
    C29_RunToEnd(pair_command(C29_RunToEnd(pair_command(c, x, id, t), t), y, id, t), t)

\* the alarms (state and configuration), the persisted data and the timers
C29_Outcome(c) ==
    <<[id \in DOMAIN c.alarms |-> <<c.alarms[id].rt.state, c.alarms[id].data>>],
      c.storeAlarms, c.storeRuntime, c.scheduled, c.preAlarmCb, c.snoozeCb,
      c.autoDismissCb>>

\* C29: two commands issued concurrently for the same alarm do not interleave: when
\* both have ended, the state, configuration, timers and persisted data are those
\* of the two commands run one after the other in one of the two orders.
C29_Serializable ==
    (calc.phase = 2 /\ tasks = {}) =>
        \/ C29_Outcome(Cur) = C29_Outcome(C29_Seq(calc.before, calc.a, calc.b, calc.id, now))
        \/ C29_Outcome(Cur) = C29_Outcome(C29_Seq(calc.before, calc.b, calc.a, calc.id, now))

\* C29 for the pair of the claim's example, dismiss and set_enabled(false), each
\* suspended at an await (the alarm has scripts)
C29_DismissDisable ==
    (calc.phase = 2 /\ tasks = {} /\ {calc.a, calc.b} = {"dismiss", "set_enabled_off"}
       /\ calc.before.alarms[calc.id].data.scripts) =>
        \/ C29_Outcome(Cur) = C29_Outcome(C29_Seq(calc.before, calc.a, calc.b, calc.id, now))
        \/ C29_Outcome(Cur) = C29_Outcome(C29_Seq(calc.before, calc.b, calc.a, calc.id, now))

\* C30: whenever an AutoDismiss timer is pending for an alarm id, that alarm exists
\* and is Ringing (a trigger handler that resumes after the alarm script arms the
\* timer only if the alarm is still Ringing).
C30_AutoDismissOnlyRinging ==
    \A id \in AlarmIds :
        Pending(autoDismissCb, id) =>
            /\ id \in DOMAIN alarms
            /\ alarms[id].rt.state = RINGING

\* C30 for the handler of the claim: test_alarm awaits the alarm script, dismiss is
\* issued meanwhile, and both run to their end
C30_AfterAwait ==
    (calc.phase = 2 /\ calc.a = "test_alarm" /\ calc.b = "dismiss")
        => C30_AutoDismissOnlyRinging

\* the step ends an update_alarm, set_enabled, set_time or set_days of the alarm
C31_Completes(id) ==
    /\ last'.op \in {"update_alarm", "set_enabled", "set_time", "set_days"}
    /\ last'.id = id /\ last'.done /\ last'.ret
    /\ id \in DOMAIN alarms'

\* C31: update_alarm, set_enabled, set_time and set_days cancel all four timer kinds
\* of the alarm before re-arming: when one of them has completed, no SnoozeEnd or
\* AutoDismiss timer is pending and a pending Main or PreAlarm timer is the one of
\* the next occurrence under the configuration the command has left.
C31_NoStaleTimer ==
    [][\A id \in AlarmIds :
          C31_Completes(id) =>
              /\ ~Pending(snoozeCb', id) /\ ~Pending(autoDismissCb', id)
              /\ Pending(scheduled', id) =>
                     scheduled'[id].at = _calculate_next_trigger(alarms'[id].data, now)
              /\ Pending(preAlarmCb', id) =>
                     /\ alarms'[id].data.pre_alarm_duration > 0
                     /\ preAlarmCb'[id].at = _calculate_next_trigger(alarms'[id].data, now)
                                                 - alarms'[id].data.pre_alarm_duration * 60
      ]_vars

\* C31 for a command that no other handler has run in between of: the step before
\* was its own first part
C31_NoStaleTimerAlone ==
    [][\A id \in AlarmIds :
          (C31_Completes(id) /\ last.op = last'.op /\ last.id = id /\ ~last.done) =>
              /\ ~Pending(snoozeCb', id) /\ ~Pending(autoDismissCb', id)
              /\ Pending(scheduled', id) =>
                     scheduled'[id].at = _calculate_next_trigger(alarms'[id].data, now)
              /\ Pending(preAlarmCb', id) =>
                     /\ alarms'[id].data.pre_alarm_duration > 0
                     /\ preAlarmCb'[id].at = _calculate_next_trigger(alarms'[id].data, now)
                                                 - alarms'[id].data.pre_alarm_duration * 60
      ]_vars

\* C31 for the Main timer alone, and a command that nothing has run in between of
C31_NoStaleMainAlone ==
    [][\A id \in AlarmIds :
          (C31_Completes(id) /\ last.op = last'.op /\ last.id = id /\ ~last.done) =>
              (Pending(scheduled', id) =>
                   scheduled'[id].at = _calculate_next_trigger(alarms'[id].data, now))
      ]_vars

\* the step has registered a timer of the dict d for the alarm
C32_Arms(d, dNext, id) ==
    /\ id \in DOMAIN dNext /\ ~dNext[id].fired
    /\ id \notin DOMAIN d \/ d[id] # dNext[id]

\* C32: in every command that arms a timer the store write of the state or
\* configuration the timer depends on completes before the timer is armed: when
\* snooze has armed the SnoozeEnd timer the store holds the Snoozed runtime state,
\* and when add_alarm, update_alarm, set_enabled, set_time, set_days or cancel_skip
\* has armed the Main timer the store holds the alarm's configuration.
C32_WriteBeforeArm ==
    [][\A id \in AlarmIds :
          /\ (last'.op = "snooze" /\ last'.id = id /\ C32_Arms(snoozeCb, snoozeCb', id)) =>
                 /\ id \in DOMAIN storeRuntime' /\ id \in DOMAIN alarms'
                 /\ storeRuntime'[id] = to_restore_data(alarms'[id])
          /\ (/\ last'.op \in {"add_alarm", "update_alarm", "set_enabled", "set_time",
                               "set_days", "cancel_skip"}
              /\ last'.id = id /\ C32_Arms(scheduled, scheduled', id)) =>
                 /\ id \in DOMAIN storeAlarms' /\ id \in DOMAIN alarms'
                 /\ storeAlarms'[id] = alarms'[id].data
      ]_vars

\* C32 for snooze alone, issued while no handler is suspended
C32_SnoozeWrite ==
    [][\A id \in AlarmIds :
          (/\ tasks = {} /\ last'.op = "snooze" /\ last'.id = id
           /\ C32_Arms(snoozeCb, snoozeCb', id)) =>
              /\ id \in DOMAIN storeRuntime' /\ id \in DOMAIN alarms'
              /\ storeRuntime'[id] = to_restore_data(alarms'[id])
      ]_vars

\* C33: an alarm whose current pre_alarm_duration is 0 is never in PreAlarm and has
\* no PreAlarm timer pending, and a pending PreAlarm timer is set for the next
\* occurrence (the one the Main timer is set for) minus the current
\* pre_alarm_duration; this in the states where no handler of the alarm is
\* suspended.
C33_PreAlarmTimer ==
    \A id \in {x \in DOMAIN alarms : Quiescent(x)} :
        /\ alarms[id].data.pre_alarm_duration = 0 =>
               /\ alarms[id].rt.state # PRE_ALARM
               /\ ~Pending(preAlarmCb, id)
        /\ Pending(preAlarmCb, id) =>
               /\ id \in DOMAIN scheduled
               /\ preAlarmCb[id].at = scheduled[id].at - alarms[id].data.pre_alarm_duration * 60

\* C34: after each health-check pass completes, every Snoozed alarm has a pending
\* SnoozeEnd timer (or has been driven to Ringing by the pass) and every Ringing
\* alarm has a pending AutoDismiss timer.
C34_HealthRepairs ==
    [][C22_PassEnds =>
          \A id \in DOMAIN alarms' :
              /\ alarms'[id].rt.state = SNOOZED => Pending(snoozeCb', id)
              /\ alarms'[id].rt.state = RINGING => Pending(autoDismissCb', id)
      ]_vars

\* C34 for the alarms no handler of which is suspended when the pass ends
C34_HealthRepairsQuiescent ==
    [][C22_PassEnds =>
          \A id \in {x \in DOMAIN alarms' : \A k \in tasks' : k.id # x} :
              /\ alarms'[id].rt.state = SNOOZED => Pending(snoozeCb', id)
              /\ alarms'[id].rt.state = RINGING => Pending(autoDismissCb', id)
      ]_vars

\* the runtime fields of an alarm that is not ringing, snoozed or about to ring
C35_Reset ==
    \A id \in DOMAIN alarms :
        alarms[id].rt.state \in {ARMED, DISMISSED, AUTO_DISMISSED, MISSED} =>
            /\ alarms[id].rt.snooze_count = 0
            /\ alarms[id].rt.ringing_start_time = NoTime
            /\ alarms[id].rt.snooze_end_time = NoTime
            /\ alarms[id].rt.current_trigger_type = NoTrigger

\* a handler of the running coordinator takes the alarm into Ringing
C35_IntoRinging(id) ==
    /\ last'.op \notin {"start", "crash"}
    /\ id \in DOMAIN alarms /\ id \in DOMAIN alarms'
    /\ alarms[id].rt.state # RINGING /\ alarms'[id].rt.state = RINGING

\* C35: in every reachable state an alarm that is Armed, Dismissed, AutoDismissed or
\* Missed has snooze_count 0 and no ringing start time, snooze end time or trigger
\* kind; a transition into Ringing sets the ringing start time, last_triggered and
\* the trigger kind, and leaves snooze_count unchanged.
C35_RuntimeFields ==
    /\ []C35_Reset
    /\ [][\A id \in AlarmIds :
             C35_IntoRinging(id) =>
                 /\ alarms'[id].rt.ringing_start_time = now'
                 /\ alarms'[id].rt.last_triggered = now'
                 /\ alarms'[id].rt.current_trigger_type # NoTrigger
                 /\ alarms'[id].rt.snooze_count = alarms[id].rt.snooze_count
         ]_vars

\* an alarm that was snoozed has been dismissed: its count is back to 0 while the
\* store still has the count of the snooze
C35_Witness ==
    \E id \in DOMAIN alarms \cap DOMAIN storeRuntime :
        /\ alarms[id].rt.state = DISMISSED /\ alarms[id].rt.snooze_count = 0
        /\ alarms[id].rt.last_triggered # NoTime
        /\ storeRuntime[id].state = SNOOZED /\ storeRuntime[id].snooze_count > 0

\* the step changes the skip_next flag of an alarm the coordinator keeps
C36_SkipChanged(id) ==
    /\ id \in DOMAIN alarms /\ id \in DOMAIN alarms'
    /\ alarms'[id].data.skip_next # alarms[id].data.skip_next

\* C36: set_time, set_days and set_enabled never change the skip_next flag of the
\* alarm; only skip_next, cancel_skip and the scheduled consumption of the skipped
\* occurrence change it (no handler of the code consumes it, so every change is
\* made by skip_next or cancel_skip for that alarm).
C36_SkipFrame ==
    [][\A id \in AlarmIds :
          /\ last'.op \in {"set_time", "set_days", "set_enabled"} => ~C36_SkipChanged(id)
          /\ (C36_SkipChanged(id) /\ last'.op \notin {"start", "crash"})
                 => (last'.op \in {"skip_next", "cancel_skip"} /\ last'.id = id)
      ]_vars

\* set_time, set_days or set_enabled has completed on an alarm whose skip_next flag
\* is set
C36_Witness ==
    /\ last.op \in {"set_time", "set_days", "set_enabled"} /\ last.done /\ last.ret
    /\ last.id \in DOMAIN alarms
    /\ alarms[last.id].data.skip_next

\* the most recent run of the Main timer's handler for the alarm did not ring it:
\* the duplicate-fire guard ignored it, or the transition to Ringing was refused
C37_LastFireIgnored(id) ==
    /\ id \in DOMAIN mainRuns' /\ Len(mainRuns'[id]) > 0
    /\ ~mainRuns'[id][Len(mainRuns'[id])].rang

\* C37: whenever a Main fire was ignored by the duplicate-fire guard, or failed to
\* move the alarm to Ringing, and the alarm remains enabled and Armed with skip_next
\* false and a non-empty day set, a Main timer for a future occurrence is pending
\* at the latest after the next health-check pass.
C37_RearmedAfterIgnoredFire ==
    [][C22_PassEnds =>
          \A id \in DOMAIN alarms' :
              (/\ C37_LastFireIgnored(id)
               /\ alarms'[id].data.enabled /\ alarms'[id].rt.state = ARMED
               /\ ~alarms'[id].data.skip_next /\ alarms'[id].data.days # {}
               /\ \A k \in tasks' : k.id # id)
                  => /\ Pending(scheduled', id)
                     /\ scheduled'[id].at >= mainRuns'[id][Len(mainRuns'[id])].at
      ]_vars

\* the fallback runs started within what a run of the pipeline did: every
\* script_failed event that is followed by further calls or events, and the one
\* at which the nesting bound was reached
C38_FallbackRuns(run) ==
    Cardinality({i \in 1..Len(run.trace) :
                    /\ run.trace[i].kind = "script_failed"
                    /\ (i < Len(run.trace) \/ run.cut)})

-----------------------------------------------------------------------------
(* The coordinator with alarms that have a pre-alarm phase: commands are issued
   while the alarm is in PreAlarm or before; the host's event loop runs every
   timer that is due and resumes every handler whose await returns *)

PreAlarms == {AlarmData(TRUE, {"monday", "tuesday"}, FALSE, MaxSnoozeCfg, 5, FALSE)}

NextPre ==
    \/ Advance
    \/ Start
    \/ \E id \in AlarmIds : FireMain(id)
    \/ \E id \in AlarmIds : FirePreAlarm(id)
    \/ \E id \in AlarmIds : FireAutoDismiss(id)
    \/ \E id \in AlarmIds, alarm_data \in PreAlarms : AddAlarm(id, alarm_data)
    \/ \E id \in AlarmIds : UpdateAlarm(id)
    \/ \E id \in AlarmIds, time \in AlarmTimes : SetTime(id, time)
    \/ \E id \in AlarmIds : SkipNext(id)
    \/ \E id \in AlarmIds : Dismiss(id)
    \/ \E k \in tasks : Resume(k)

FairnessPre ==
    /\ WF_vars(Advance)
    /\ \A id \in AlarmIds :
          /\ WF_vars(FireMain(id))
          /\ WF_vars(FirePreAlarm(id))
          /\ WF_vars(FireAutoDismiss(id))
    /\ WF_vars(\E k \in tasks : Resume(k))

SpecPre == Init /\ [][NextPre]_vars /\ FairnessPre

\* the alarm is in PreAlarm and the occurrence it announces is one the clock can
\* reach
C39_InPreAlarm(id) ==
    /\ running /\ id \in DOMAIN alarms
    /\ alarms[id].rt.state = PRE_ALARM
    /\ alarms[id].rt.next_trigger # NoTime
    /\ alarms[id].rt.next_trigger + JITTER <= Horizon

\* the alarm's Main timer is pending for an occurrence the clock does not reach:
\* the alarm waits for that timer (a command that reschedules an alarm in PreAlarm
\* leaves it in PreAlarm until the occurrence of the new timer)
C39_WaitsBeyondHorizon(id) ==
    /\ id \in DOMAIN alarms
    /\ Pending(scheduled, id) /\ scheduled[id].at + JITTER > Horizon

\* C39: an alarm in PreAlarm always eventually leaves PreAlarm (to Ringing, Armed
\* or Disabled) through timer firings alone, also when update_alarm, set_time,
\* skip_next or dismiss is issued while it is in PreAlarm.
C39_LeavesPreAlarm ==
    \A id \in AlarmIds :
        C39_InPreAlarm(id) ~>
            \/ id \notin DOMAIN alarms
            \/ alarms[id].rt.state # PRE_ALARM
            \/ C39_WaitsBeyondHorizon(id)

-----------------------------------------------------------------------------
(* The coordinator with two alarms: each is added, rings, is snoozed and dismissed
   on its own while the other one is in any state *)

TwoIds == {"a1", "a2"}

NextTwo ==
    \/ Advance
    \/ Start
    \/ \E id \in TwoIds : FireMain(id)
    \/ \E id \in TwoIds : FireSnoozeEnd(id)
    \/ \E id \in TwoIds : FireAutoDismiss(id)
    \/ \E id \in TwoIds, alarm_data \in LiveAlarms : AddAlarm(id, alarm_data)
    \/ \E id \in TwoIds : Snooze(id)
    \/ \E id \in TwoIds : Dismiss(id)
    \/ \E k \in tasks : Resume(k)

SpecTwo == Init /\ [][NextTwo]_vars

\* the entry of the alarm x in the dict d is left as it is by the step
C40_SameEntry(d, dNext, x) ==
    /\ (x \in DOMAIN d) = (x \in DOMAIN dNext)
    /\ x \in DOMAIN d => dNext[x] = d[x]

\* C40: a command or timer firing for one alarm leaves the state, snooze_count,
\* configuration, duplicate-fire record and all four timers of every other alarm
\* unchanged, so two alarms can ring, be snoozed and be dismissed independently at
\* the same time.
C40_OtherAlarmsUntouched ==
    [][\A id \in TwoIds, x \in TwoIds :
          (x # id /\ last'.id = id /\ last'.op \notin {"start", "health_check"})
              => /\ C40_SameEntry(alarms, alarms', x)
                 /\ C40_SameEntry(lastTriggerTimes, lastTriggerTimes', x)
                 /\ C40_SameEntry(scheduled, scheduled', x)
                 /\ C40_SameEntry(preAlarmCb, preAlarmCb', x)
                 /\ C40_SameEntry(snoozeCb, snoozeCb', x)
                 /\ C40_SameEntry(autoDismissCb, autoDismissCb', x)
      ]_vars

\* one alarm has just been dismissed while the other one, which rang at the same
\* time, is snoozed with its SnoozeEnd timer pending
C40_Witness ==
    \E id \in TwoIds, x \in TwoIds :
        /\ x # id
        /\ last.op = "dismiss" /\ last.id = id /\ last.done /\ last.ret
        /\ id \in DOMAIN alarms /\ x \in DOMAIN alarms
        /\ alarms[id].rt.state = ARMED
        /\ alarms[x].rt.state = SNOOZED /\ alarms[x].rt.snooze_count = 1
        /\ Pending(snoozeCb, x)

====
